---------------------------- MODULE Spec2Model ----------------------------
(***************************************************************************)
(* A model of the aura library (src/src/aura): volume-name parsing,        *)
(* the VolumeList temporal queries and the get_vol dispatcher.             *)
(*                                                                         *)
(* Representation.                                                         *)
(*   - A str is a tuple of one-character strings.  "\n" is the line feed   *)
(*     and "U+FF12" stands for the single character FULLWIDTH DIGIT TWO,   *)
(*     a decimal digit for Python's \d and int().                          *)
(*   - A date is [year, month, day]; a datetime adds hour, minute,         *)
(*     second, microsecond, as Python stores them.                         *)
(*   - A timedelta is [days, seconds, microseconds], normalised as in      *)
(*     Python (0 <= seconds < 86400, 0 <= microseconds < 10^6).            *)
(*   - total_seconds() is a float; for the spans modelled here (days, not  *)
(*     centuries) the float is an exact image of the value, and it is      *)
(*     kept as the pair <<whole seconds, microseconds>>, ordered           *)
(*     lexicographically.                                                  *)
(***************************************************************************)
EXTENDS Integers, Sequences, FiniteSets, TLC

VARIABLES
    archive,    \* the archive directory tree: zip path -> NoFile | entry names
    _base_path, \* config._base_path
    environ,    \* os.environ's AURA_BASE_PATH
    volumes,    \* VolumeList._volumes of the collection under manipulation
    res,        \* the call made last, with its arguments and its outcome
    last_set,   \* history: the argument of the latest set_base_path call
    disk,       \* the files and directories the library has made on disk
    opened,     \* the entries whose payload was opened: <<zip path, name>>
    heap,       \* the Python list objects, by address 1..Len(heap)
    colls,      \* the VolumeList objects built: the address of each _volumes
    held,       \* the addresses of the list objects the caller holds
    csv_files,  \* radar_site_list.csv under each root: None | its rows
    cache,      \* the lru_cache of _load_radar_site_list: None | its value
    loads,      \* history: the records each read of a site list file gave
    workers,    \* the position of each worker in its read/extract call
    handles     \* the container handles that are open: [owner, zip_path]

fileVars == <<disk, opened>>

heapVars == <<heap, colls, held>>

radarVars == <<csv_files, cache, loads>>

workerVars == <<workers, handles>>

vars == <<archive, _base_path, environ, volumes, res, last_set, fileVars,
          heapVars, radarVars, workerVars>>

Idle == [op |-> "idle"]

-----------------------------------------------------------------------------
(* Characters and integers                                                 *)

AsciiDigits == {"0", "1", "2", "3", "4", "5", "6", "7", "8", "9"}

\* re's \d on a str pattern: every Unicode decimal digit, not ASCII only.
IsDigit(c) == c \in AsciiDigits \cup {"U+FF12"}

DigitVal(c) ==
    CASE c = "0" -> 0 [] c = "1" -> 1 [] c = "2" -> 2 [] c = "3" -> 3
      [] c = "4" -> 4 [] c = "5" -> 5 [] c = "6" -> 6 [] c = "7" -> 7
      [] c = "8" -> 8 [] c = "9" -> 9 [] c = "U+FF12" -> 2

RECURSIVE int(_)
\* int(s) of a string of decimal digits.
int(s) ==
    IF s = <<>> THEN 0
    ELSE 10 * int(SubSeq(s, 1, Len(s) - 1)) + DigitVal(s[Len(s)])

AllDigits(s) == \A i \in 1..Len(s) : IsDigit(s[i])

-----------------------------------------------------------------------------
(* Calendar arithmetic of datetime                                         *)

IsLeap(y) == y % 4 = 0 /\ (y % 100 # 0 \/ y % 400 = 0)

DaysInMonth(y, m) ==
    CASE m \in {1, 3, 5, 7, 8, 10, 12} -> 31
      [] m \in {4, 6, 9, 11} -> 30
      [] m = 2 -> IF IsLeap(y) THEN 29 ELSE 28

RECURSIVE DaysBeforeMonth(_, _)
DaysBeforeMonth(y, m) ==
    IF m = 1 THEN 0 ELSE DaysBeforeMonth(y, m - 1) + DaysInMonth(y, m - 1)

\* date.toordinal(): 1 for 0001-01-01.
ToOrdinal(d) ==
    LET y == d.year - 1
    IN  y * 365 + (y \div 4) - (y \div 100) + (y \div 400)
          + DaysBeforeMonth(d.year, d.month) + d.day

\* date + timedelta(days=1)
NextDay(d) ==
    IF d.day < DaysInMonth(d.year, d.month)
    THEN [year |-> d.year, month |-> d.month, day |-> d.day + 1]
    ELSE IF d.month < 12
         THEN [year |-> d.year, month |-> d.month + 1, day |-> 1]
         ELSE [year |-> d.year + 1, month |-> 1, day |-> 1]

\* date - timedelta(days=1)
PrevDay(d) ==
    IF d.day > 1
    THEN [year |-> d.year, month |-> d.month, day |-> d.day - 1]
    ELSE IF d.month > 1
         THEN [year |-> d.year, month |-> d.month - 1,
               day |-> DaysInMonth(d.year, d.month - 1)]
         ELSE [year |-> d.year - 1, month |-> 12, day |-> 31]

\* datetime.date()
DateOf(dt) == [year |-> dt.year, month |-> dt.month, day |-> dt.day]

MkDateTime(d, h, mi, s, us) ==
    [year |-> d.year, month |-> d.month, day |-> d.day,
     hour |-> h, minute |-> mi, second |-> s, microsecond |-> us]

SecondOfDay(dt) == dt.hour * 3600 + dt.minute * 60 + dt.second

\* date <= date
DateLE(a, b) == ToOrdinal(a) <= ToOrdinal(b)

\* The order of naive datetimes: <<ordinal, second of day, microsecond>>.
DTKey(dt) == <<ToOrdinal(DateOf(dt)), SecondOfDay(dt), dt.microsecond>>

LexLT(a, b) ==
    \/ a[1] < b[1]
    \/ a[1] = b[1] /\ a[2] < b[2]
    \/ a[1] = b[1] /\ a[2] = b[2] /\ a[3] < b[3]

DTLT(a, b) == LexLT(DTKey(a), DTKey(b))
DTLE(a, b) == ~DTLT(b, a)

\* a - b of two naive datetimes: a normalised timedelta.
DTSub(a, b) ==
    LET days == ToOrdinal(DateOf(a)) - ToOrdinal(DateOf(b))
        secs == SecondOfDay(a) - SecondOfDay(b)
        us   == a.microsecond - b.microsecond
        us2  == IF us < 0 THEN us + 1000000 ELSE us
        s1   == IF us < 0 THEN secs - 1 ELSE secs
        s2   == IF s1 < 0 THEN s1 + 86400 ELSE s1
        d2   == IF s1 < 0 THEN days - 1 ELSE days
    IN  [days |-> d2, seconds |-> s2, microseconds |-> us2]

\* timedelta.total_seconds(), as <<whole seconds (floor), microseconds>>.
total_seconds(td) == <<td.days * 86400 + td.seconds, td.microseconds>>

\* abs() of such a float.
FAbs(x) ==
    IF x[1] >= 0 THEN x
    ELSE IF x[2] = 0 THEN <<-x[1], 0>>
         ELSE <<-x[1] - 1, 1000000 - x[2]>>

FLT(x, y) == x[1] < y[1] \/ (x[1] = y[1] /\ x[2] < y[2])
FLE(x, y) == ~FLT(y, x)

\* Mutant: the fraction cut off, as int(x) does.
Format0fTruncated(x) == x[1]

\* f"{x:.0f}" of a non-negative float: round to nearest, ties to even.
Format0f(x) ==
    IF x[2] < 500000 THEN x[1]
    ELSE IF x[2] > 500000 THEN x[1] + 1
         ELSE IF x[1] % 2 = 0 THEN x[1] ELSE x[1] + 1

-----------------------------------------------------------------------------
(* config.py: VOLUME_PATTERN and the formats                               *)

\* The literal tail of VOLUME_PATTERN, \.pvol\.h5
VolumeSuffix == <<".", "p", "v", "o", "l", ".", "h", "5">>

RECURSIVE DigitPrefixLen(_)
\* The length of the greedy match of \d+ (0: no match) at the start of s.
DigitPrefixLen(s) ==
    IF s = <<>> \/ ~IsDigit(s[1]) THEN 0 ELSE 1 + DigitPrefixLen(Tail(s))

\* VOLUME_PATTERN.match(filename): the groups, or NoMatch.
\* ^(\d+)_(\d{8})_(\d{6})\.pvol\.h5$ ; without re.MULTILINE, $ matches at
\* the end of the string and also just before a line feed that ends it.
NoMatch == [matched |-> FALSE]

VOLUME_PATTERN_match(filename) ==
    LET n    == DigitPrefixLen(filename)
        body == n + 24
        date == SubSeq(filename, n + 2, n + 9)
        time == SubSeq(filename, n + 11, n + 16)
    IN  IF /\ n >= 1
           /\ Len(filename) >= body
           /\ filename[n + 1] = "_"
           /\ AllDigits(date)
           /\ filename[n + 10] = "_"
           /\ AllDigits(time)
           /\ SubSeq(filename, n + 17, n + 24) = VolumeSuffix
           /\ \/ Len(filename) = body
              \/ Len(filename) = body + 1 /\ filename[body + 1] = "\n"
        THEN [matched |-> TRUE, g1 |-> SubSeq(filename, 1, n),
              g2 |-> date, g3 |-> time]
        ELSE NoMatch

\* datetime.strptime(f"{date_str}_{time_str}", DATETIME_FORMAT) for eight
\* and six digits.  The directives take two digits each (%Y four) or the
\* parse leaves data unconverted; the fields must then be a real date and
\* time of day (year >= 1, second <= 59), else ValueError.
StrptimeError == [ok |-> FALSE]

\* Mutant: the seconds left out of the timestamp, as a format "%H%M" reads.
strptime_minutes(date_str, time_str) ==
    LET y  == int(SubSeq(date_str, 1, 4))
        mo == int(SubSeq(date_str, 5, 6))
        d  == int(SubSeq(date_str, 7, 8))
        h  == int(SubSeq(time_str, 1, 2))
        mi == int(SubSeq(time_str, 3, 4))
    IN  IF y >= 1 /\ mo \in 1..12 /\ d >= 1 /\ d <= DaysInMonth(y, mo)
           /\ h <= 23 /\ mi <= 59 /\ int(SubSeq(time_str, 5, 6)) <= 59
        THEN [ok |-> TRUE,
              value |-> [year |-> y, month |-> mo, day |-> d, hour |-> h,
                         minute |-> mi, second |-> 0, microsecond |-> 0]]
        ELSE StrptimeError

strptime(date_str, time_str) ==
    LET y  == int(SubSeq(date_str, 1, 4))
        mo == int(SubSeq(date_str, 5, 6))
        d  == int(SubSeq(date_str, 7, 8))
        h  == int(SubSeq(time_str, 1, 2))
        mi == int(SubSeq(time_str, 3, 4))
        s  == int(SubSeq(time_str, 5, 6))
    IN  IF /\ y >= 1
           /\ mo \in 1..12
           /\ d >= 1
           /\ d <= DaysInMonth(y, mo)
           /\ h <= 23
           /\ mi <= 59
           /\ s <= 59
        THEN [ok |-> TRUE,
              value |-> [year |-> y, month |-> mo, day |-> d, hour |-> h,
                         minute |-> mi, second |-> s, microsecond |-> 0]]
        ELSE StrptimeError

-----------------------------------------------------------------------------
(* volume.py: LazyVolume                                                   *)

ValueError(what) == [kind |-> "error", exc |-> "ValueError", what |-> what]

\* LazyVolume.from_filename(zip_path, filename): the reference, or the
\* ValueError raised.
from_filename(zip_path, filename) ==
    LET match == VOLUME_PATTERN_match(filename)
    IN  IF ~match.matched THEN ValueError("Invalid volume filename")
        ELSE LET timestamp == strptime(match.g2, match.g3)
             IN  IF ~timestamp.ok THEN ValueError("strptime")
                 ELSE [kind |-> "vol",
                       vol |-> [zip_path  |-> zip_path,
                                filename  |-> filename,
                                radar_id  |-> int(match.g1),
                                timestamp |-> timestamp.value]]


\* What zipfile raises: FileNotFoundError when the archive file is not
\* there (ZipFile(path, "r")), KeyError when it has no entry of the name
\* (ZipFile.open, ZipFile.extract).
ZipFileNotFound(zip_path) ==
    [kind |-> "error", exc |-> "FileNotFoundError", path |-> zip_path]

KeyError(filename) ==
    [kind |-> "error", exc |-> "KeyError", name |-> filename]

ImportError == [kind |-> "error", exc |-> "ImportError"]

\* with zipfile.ZipFile(self.zip_path, "r") as zf: zf.open(self.filename):
\* the payload of the entry, or the error raised.
zf_open(fs, self) ==
    IF ~(self.zip_path \in DOMAIN fs /\ fs[self.zip_path].exists)
    THEN ZipFileNotFound(self.zip_path)
    ELSE IF \A i \in 1..Len(fs[self.zip_path].names) :
                fs[self.zip_path].names[i] # self.filename
         THEN KeyError(self.filename)
         ELSE [kind |-> "bytes", zip_path |-> self.zip_path,
               filename |-> self.filename]

\* tempfile.NamedTemporaryFile(suffix=".h5", delete=False).name
TmpPath == <<"/tmp", <<"t", "m", "p", ".", "h", "5">>>>

\* What is on disk: directories, and files with the bytes they hold. The
\* bytes of an entry are known by the container and the name they are
\* read from.
Dir == [kind |-> "dir"]

Bytes(file, filename) == [kind |-> "bytes", of |-> <<file, filename>>]

OnDisk(path, data) == [path |-> path, data |-> data]

\* Mutant: a file that exists is left as it is.
write_new_only(on_disk, path, data) ==
    IF \E e \in on_disk : e.path = path THEN on_disk
    ELSE on_disk \cup {OnDisk(path, data)}

\* open(path, "wb").write(data): the file made, or replaced.
write(on_disk, path, data) ==
    { e \in on_disk : e.path # path } \cup {OnDisk(path, data)}

\* Mutant: the file removed after a return only, try without finally.
unlink_on_return(on_disk, path, raised) ==
    IF raised THEN on_disk ELSE { e \in on_disk : e.path # path }

\* finally: os.unlink(path), after a return and after an exception alike.
unlink(on_disk, path, raised) == { e \in on_disk : e.path # path }

FileExistsError == [kind |-> "error", exc |-> "FileExistsError"]

\* directory.mkdir(parents=True, exist_ok=True): the directory and its
\* missing parents made; FileExistsError when a file is in the way.
mkdir(on_disk, directory) ==
    LET parts == { SubSeq(directory, 1, k) : k \in 1..Len(directory) }
    IN  IF \E e \in on_disk : e.path \in parts /\ e.data # Dir
        THEN [ok |-> FALSE, disk |-> on_disk]
        ELSE [ok |-> TRUE,
              disk |-> on_disk \cup { OnDisk(part, Dir) : part \in parts }]

-----------------------------------------------------------------------------
(* volume.py: VolumeList                                                   *)

None == [kind |-> "none"]

\* VolumeList.__init__: self._volumes = list(volumes) if volumes else []
VolumeList(list) == list

\* Mutant: the key without abs().
NearestKeySigned(v, target) == total_seconds(DTSub(v.timestamp, target))

\* The key of nearest()'s min(): abs((v.timestamp - target).total_seconds())
NearestKey(v, target) == FAbs(total_seconds(DTSub(v.timestamp, target)))

RECURSIVE MinIndexLast(_, _, _, _)
\* Mutant: a scan that lets a later element of equal key replace the best.
MinIndexLast(seq, target, i, best) ==
    IF i > Len(seq) THEN best
    ELSE IF FLE(NearestKey(seq[i], target), NearestKey(seq[best], target))
         THEN MinIndexLast(seq, target, i + 1, i)
         ELSE MinIndexLast(seq, target, i + 1, best)

RECURSIVE MinIndex(_, _, _, _)
\* min(seq, key=...): the scan keeps the first element met whose key is
\* smaller than every key before it.
MinIndex(seq, target, i, best) ==
    IF i > Len(seq) THEN best
    ELSE IF FLT(NearestKey(seq[i], target), NearestKey(seq[best], target))
         THEN MinIndex(seq, target, i + 1, i)
         ELSE MinIndex(seq, target, i + 1, best)

\* Mutant: None for the empty collection, as at() gives.
nearest_or_none(self, target) ==
    IF self = <<>> THEN None
    ELSE [kind |-> "vol", vol |-> self[MinIndex(self, target, 2, 1)]]

\* VolumeList.nearest(target)
nearest(self, target) ==
    IF self = <<>>
    THEN ValueError("Cannot find nearest in empty VolumeList")
    ELSE [kind |-> "vol", vol |-> self[MinIndex(self, target, 2, 1)]]

\* Mutant: no test for the empty collection before nearest() is called.
at_unguarded(self, target, tolerance_seconds) ==
    LET n == nearest(self, target)
    IN  IF n.kind = "error" THEN n
        ELSE IF FLE(NearestKey(n.vol, target), tolerance_seconds) THEN n
        ELSE None

\* Mutant: the tolerance taken as an exclusive limit.
at_exclusive(self, target, tolerance_seconds) ==
    IF self = <<>> THEN None
    ELSE LET n == nearest(self, target)
         IN  IF FLT(NearestKey(n.vol, target), tolerance_seconds)
             THEN n
             ELSE None

\* VolumeList.at(target, tolerance_seconds)
at(self, target, tolerance_seconds) ==
    IF self = <<>> THEN None
    ELSE LET n == nearest(self, target)
         IN  IF FLE(NearestKey(n.vol, target), tolerance_seconds)
             THEN n
             ELSE None

\* A predicate handed to filter(): a function of the reference, kept as the
\* set of references it is true of.
Callable(true_of) == [kind |-> "callable", true_of |-> true_of]

\* Mutant: the end taken as an exclusive bound.
filter_before_end(self, start, end, predicate) ==
    LET r1 == IF start # None
              THEN SelectSeq(self, LAMBDA v : DTLE(start, v.timestamp))
              ELSE self
        r2 == IF end # None
              THEN SelectSeq(r1, LAMBDA v : DTLT(v.timestamp, end))
              ELSE r1
        r3 == IF predicate # None
              THEN SelectSeq(r2, LAMBDA v : v \in predicate.true_of)
              ELSE r2
    IN  VolumeList(r3)

\* VolumeList.filter(start, end, predicate)
filter(self, start, end, predicate) ==
    LET r1 == IF start # None
              THEN SelectSeq(self, LAMBDA v : DTLE(start, v.timestamp))
              ELSE self
        r2 == IF end # None
              THEN SelectSeq(r1, LAMBDA v : DTLE(v.timestamp, end))
              ELSE r1
        r3 == IF predicate # None
              THEN SelectSeq(r2, LAMBDA v : v \in predicate.true_of)
              ELSE r2
    IN  VolumeList(r3)

RECURSIVE InsertSortedBefore(_, _, _)
\* Mutant: v goes before the elements of equal timestamp, so ties come out
\* in the reverse of the order they came in.
InsertSortedBefore(done, v, reverse) ==
    IF done = <<>> THEN <<v>>
    ELSE LET last == done[Len(done)]
             stays == IF reverse THEN DTLT(v.timestamp, last.timestamp)
                                 ELSE DTLT(last.timestamp, v.timestamp)
         IN  IF stays THEN Append(done, v)
             ELSE Append(InsertSortedBefore(SubSeq(done, 1, Len(done) - 1),
                                            v, reverse),
                         last)

RECURSIVE InsertSorted(_, _, _)
\* One step of a stable sort by timestamp: v goes after every element that
\* does not have to follow it.
InsertSorted(done, v, reverse) ==
    IF done = <<>> THEN <<v>>
    ELSE LET last == done[Len(done)]
             stays == IF reverse THEN DTLE(v.timestamp, last.timestamp)
                                 ELSE DTLE(last.timestamp, v.timestamp)
         IN  IF stays THEN Append(done, v)
             ELSE Append(InsertSorted(SubSeq(done, 1, Len(done) - 1), v, reverse),
                         last)

RECURSIVE sorted(_, _)
\* sorted(list, key=lambda v: v.timestamp, reverse=reverse); the sort is
\* stable in both directions.
sorted(list, reverse) ==
    IF list = <<>> THEN <<>>
    ELSE InsertSorted(sorted(SubSeq(list, 1, Len(list) - 1), reverse),
                      list[Len(list)], reverse)

\* VolumeList.sort(reverse)
sort(self, reverse) == VolumeList(sorted(self, reverse))

\* VolumeList.__add__(other)
add(self, other) == VolumeList(self \o other)

-----------------------------------------------------------------------------
(* volume.py: VolumeList as an object that holds a Python list             *)

\* The list objects live in a heap h, a sequence; the address of a list
\* object is its index, and 0 stands for the argument None.  An operation
\* that makes a list object gives the new heap and the address it gives back.

\* Mutant: the list kept as it is handed in, self._volumes = volumes.
VolumeList__init__alias(h, list) ==
    IF list # 0 THEN [heap |-> h, addr |-> list]
    ELSE [heap |-> Append(h, <<>>), addr |-> Len(h) + 1]

\* VolumeList.__init__(volumes), volumes the list object at address list:
\*     self._volumes = list(volumes) if volumes else []
\* a new list object in both cases.
VolumeList__init__(h, list) ==
    IF list # 0 /\ h[list] # <<>>
    THEN [heap |-> Append(h, h[list]), addr |-> Len(h) + 1]
    ELSE [heap |-> Append(h, <<>>), addr |-> Len(h) + 1]

\* VolumeList(<expression>) where the expression makes a new list object
\* (a slice, a comprehension, sorted(), +): the temporary object is let go
\* unless the collection keeps it.
VolumeListOf(h, list) ==
    LET tmp == Append(h, list)
        new == VolumeList__init__(tmp, Len(tmp))
    IN  IF new.addr = Len(tmp) THEN new
        ELSE [heap |-> Append(h, new.heap[new.addr]), addr |-> Len(h) + 1]

\* VolumeList.to_list(): list(self._volumes), a new list object.
to_list(h, self) == [heap |-> Append(h, h[self]), addr |-> Len(h) + 1]

\* VolumeList.filter on the object: with no argument given the expression
\* handed to VolumeList() is self._volumes itself.
filter_object(h, self, start, end, predicate) ==
    IF start = None /\ end = None /\ predicate = None
    THEN VolumeList__init__(h, self)
    ELSE VolumeListOf(h, filter(h[self], start, end, predicate))

\* VolumeList.__getitem__(slice(lo, hi)) for 0 <= lo, hi: self._volumes[lo:hi]
getitem_slice(h, self, lo, hi) ==
    VolumeListOf(h, SubSeq(h[self], lo + 1,
                           IF hi < Len(h[self]) THEN hi ELSE Len(h[self])))

-----------------------------------------------------------------------------
(* config.py: the archive root and the paths                               *)

RQ0_BASE == "/g/data/rq0/level_1/odim_pvol"

\* Path(s) of a str, for the strings of the scenarios: pathlib drops a
\* slash at the end and writes the empty path as ".".
PurePath(s) ==
    CASE s = "" -> "."
      [] s = "/archive/" -> "/archive"
      [] s = "/env/aura/" -> "/env/aura"
      [] OTHER -> s

\* Path(path) of a Path or a str.
Path(path) == IF path.kind = "path" THEN path.path ELSE PurePath(path.s)

\* Mutant: the environment variable looked at before _base_path.
get_base_path_environ_first(base, env) ==
    IF env.kind # "none" /\ env.path # "" THEN PurePath(env.path)
    ELSE IF base.kind # "none" THEN base.path
         ELSE RQ0_BASE

\* get_base_path(), from the module global _base_path and os.environ.
get_base_path(base, env) ==
    IF base.kind # "none" THEN base.path
    ELSE IF env.kind # "none" /\ env.path # "" THEN PurePath(env.path)
         ELSE RQ0_BASE

\* set_base_path(path): the new value of _base_path.
set_base_path(path) ==
    IF path = None THEN None ELSE [kind |-> "path", path |-> Path(path)]

RECURSIVE str(_)
\* str(n) of an integer n >= 0.
str(n) ==
    LET d == <<"0", "1", "2", "3", "4", "5", "6", "7", "8", "9">>[(n % 10) + 1]
    IN  IF n < 10 THEN <<d>> ELSE Append(str(n \div 10), d)

RECURSIVE ZeroPad(_, _)
\* f"{n:0wd}"
ZeroPad(s, w) == IF Len(s) >= w THEN s ELSE ZeroPad(<<"0">> \o s, w)

\* int(radar_id) of an int or a str argument.
int_arg(radar_id) ==
    IF radar_id.type = "int" THEN radar_id.n ELSE int(radar_id.s)

\* zip_path(radar_id, year, month, day), as the tuple of path components.
zip_path(root, rid, year, month, day) ==
    LET date_str == ZeroPad(str(year), 4) \o ZeroPad(str(month), 2)
                      \o ZeroPad(str(day), 2)
    IN  <<root, str(rid), str(year), "vol",
          str(rid) \o <<"_">> \o date_str
             \o <<".", "p", "v", "o", "l", ".", "z", "i", "p">> >>

-----------------------------------------------------------------------------
(* core.py                                                                 *)

NoFile == [exists |-> FALSE]

ZipFile(names) == [exists |-> TRUE, names |-> names]

\* Path.exists() of a zip path in the directory tree fs.
exists(fs, path) == path \in DOMAIN fs /\ fs[path].exists

\* has_data(radar_id, day): zip_path(...).exists()
has_data(fs, root, radar_id, day) ==
    exists(fs, zip_path(root, int_arg(radar_id), day.year, day.month, day.day))

\* Mutant: the tzinfo dropped without converting, dt.replace(tzinfo=None).
_ensure_utc_replace(dt) ==
    [year |-> dt.year, month |-> dt.month, day |-> dt.day,
     hour |-> dt.hour, minute |-> dt.minute, second |-> dt.second,
     microsecond |-> dt.microsecond, tzinfo |-> None, type |-> "datetime"]

\* _ensure_utc(dt): a naive datetime is returned as it is; an aware one is
\* moved by its UTC offset (minutes, less than a day) and loses its tzinfo.
_ensure_utc(dt) ==
    IF dt.tzinfo.kind = "none" THEN dt
    ELSE LET sod  == SecondOfDay(dt) - dt.tzinfo.utcoffset * 60
             day  == IF sod < 0 THEN PrevDay(DateOf(dt))
                     ELSE IF sod >= 86400 THEN NextDay(DateOf(dt))
                          ELSE DateOf(dt)
             s    == IF sod < 0 THEN sod + 86400
                     ELSE IF sod >= 86400 THEN sod - 86400 ELSE sod
         IN  [year |-> day.year, month |-> day.month, day |-> day.day,
              hour |-> s \div 3600, minute |-> (s % 3600) \div 60,
              second |-> s % 60, microsecond |-> dt.microsecond,
              tzinfo |-> None, type |-> "datetime"]

RECURSIVE ScanNames(_, _)
\* The loop of _list_volumes_in_zip over zf.namelist().
ScanNames(zip_file, names) ==
    IF names = <<>> THEN <<>>
    ELSE LET name == names[Len(names)]
             rest == ScanNames(zip_file, SubSeq(names, 1, Len(names) - 1))
         IN  IF VOLUME_PATTERN_match(name).matched
             THEN LET vol == from_filename(zip_file, name)
                  IN  IF vol.kind = "vol" THEN Append(rest, vol.vol) ELSE rest
             ELSE rest

\* _list_volumes_in_zip(zip_file)
_list_volumes_in_zip(fs, zip_file) ==
    IF ~exists(fs, zip_file) THEN <<>>
    ELSE sorted(ScanNames(zip_file, fs[zip_file].names), FALSE)

\* _get_volumes_for_date(radar_id, day)
_get_volumes_for_date(fs, root, rid, day) ==
    VolumeList(_list_volumes_in_zip(
        fs, zip_path(root, rid, day.year, day.month, day.day)))

RECURSIVE _get_volumes_for_range_exclusive(_, _, _, _, _)
\* Mutant: the loop run while current < end.
_get_volumes_for_range_exclusive(fs, root, rid, start, end) ==
    IF ~DateLE(start, end) \/ start = DateOf(end) THEN VolumeList(<<>>)
    ELSE _get_volumes_for_date(fs, root, rid, start)
           \o _get_volumes_for_range_exclusive(fs, root, rid, NextDay(start), end)

RECURSIVE _get_volumes_for_range_stop(_, _, _, _, _)
\* Mutant: the loop left at the first day that has no volume.
_get_volumes_for_range_stop(fs, root, rid, start, end) ==
    IF ~DateLE(start, end) THEN VolumeList(<<>>)
    ELSE LET day_volumes == _get_volumes_for_date(fs, root, rid, start)
         IN  IF day_volumes = <<>> THEN VolumeList(<<>>)
             ELSE day_volumes
                    \o _get_volumes_for_range_stop(fs, root, rid, NextDay(start), end)

RECURSIVE _get_volumes_for_range(_, _, _, _, _)
\* _get_volumes_for_range(radar_id, start, end)
_get_volumes_for_range(fs, root, rid, start, end) ==
    IF ~DateLE(start, end) THEN VolumeList(<<>>)
    ELSE _get_volumes_for_date(fs, root, rid, start)
           \o _get_volumes_for_range(fs, root, rid, NextDay(start), end)

\* FileNotFoundError(f"No data found for radar {rid} on {day}. Expected zip
\* file: {zp}")
FileNotFoundError(rid, day, zp) ==
    [kind |-> "error", exc |-> "FileNotFoundError",
     radar |-> rid, date |-> DateOf(day), path |-> zp]

TypeError == [kind |-> "error", exc |-> "TypeError"]

\* Mutant: the empty collection returned as it is.
ListOrEmpty(fs, root, rid, day) ==
    [kind |-> "list", list |-> _get_volumes_for_date(fs, root, rid, day)]

\* The day branch of get_vol: all volumes of the day, or FileNotFoundError.
ListOrNotFound(fs, root, rid, day) ==
    LET vols == _get_volumes_for_date(fs, root, rid, day)
    IN  IF vols = <<>>
        THEN FileNotFoundError(rid, day,
                 zip_path(root, rid, day.year, day.month, day.day))
        ELSE [kind |-> "list", list |-> vols]

\* Mutant: the datetime branch without the midnight heuristic.
GetVolDatetimeNoMidnight(fs, root, rid, time, is_nearest, tolerance_seconds) ==
    LET dt  == _ensure_utc(time)
        day == DateOf(dt)
        vols == _get_volumes_for_date(fs, root, rid, day)
    IN  IF vols = <<>>
        THEN FileNotFoundError(rid, day,
                 zip_path(root, rid, day.year, day.month, day.day))
        ELSE IF is_nearest THEN nearest(vols, dt)
        ELSE LET vol == at(vols, dt, tolerance_seconds)
             IN  IF vol.kind = "none"
                 THEN ValueError("No volume found within tolerance")
                 ELSE vol

\* The datetime branch of get_vol (core.py, case 3).
GetVolDatetime(fs, root, rid, time, is_nearest, tolerance_seconds) ==
    LET dt  == _ensure_utc(time)
        day == DateOf(dt)
        is_midnight == dt.hour = 0 /\ dt.minute = 0 /\ dt.second = 0
                         /\ dt.microsecond = 0
        vols == _get_volumes_for_date(fs, root, rid, day)
    IN  IF is_midnight /\ ~is_nearest THEN ListOrNotFound(fs, root, rid, day)
        ELSE IF vols = <<>>
        THEN FileNotFoundError(rid, day,
                 zip_path(root, rid, day.year, day.month, day.day))
        ELSE IF is_nearest THEN nearest(vols, dt)
        ELSE LET vol == at(vols, dt, tolerance_seconds)
             IN  IF vol.kind = "none"
                 THEN LET nearest_vol == nearest(vols, dt).vol
                      IN  [kind |-> "error", exc |-> "ValueError",
                           what |-> "No volume found within tolerance",
                           tolerance |-> tolerance_seconds,
                           dt |-> MkDateTime(DateOf(dt), dt.hour, dt.minute,
                                             dt.second, dt.microsecond),
                           nearest_timestamp |-> nearest_vol.timestamp,
                           diff |-> Format0f(NearestKey(nearest_vol, dt))]
                 ELSE vol

\* get_vol(radar_id, time_or_date, end_date, nearest=, tolerance_seconds=)
\* on the directory tree fs with the archive root root.
get_vol(fs, root, radar_id, time_or_date, end_date, is_nearest, tolerance_seconds) ==
    LET rid == int_arg(radar_id)
    IN  IF end_date.type # "NoneType"
        THEN IF time_or_date.type # "date" THEN TypeError
             ELSE [kind |-> "list",
                   list |-> _get_volumes_for_range(fs, root, rid,
                                                   time_or_date, end_date)]
        ELSE IF time_or_date.type = "date"
        THEN ListOrNotFound(fs, root, rid, time_or_date)
        ELSE IF time_or_date.type = "datetime"
        THEN GetVolDatetime(fs, root, rid, time_or_date, is_nearest,
                            tolerance_seconds)
        ELSE TypeError


-----------------------------------------------------------------------------
(* radar.py: the radar site list                                           *)

\* radar_site_list_path(): get_base_path() / "radar_site_list.csv"
radar_site_list_path(root) == <<root, "radar_site_list.csv">>

\* The cells of the two date columns: "-", a DD/MM/YYYY date, anything else.
DashCell == [text |-> "-"]

DateCell(y, m, d) ==
    [text |-> "%d/%m/%Y", date |-> [year |-> y, month |-> m, day |-> d]]

JunkCell == [text |-> "n/a"]

\* _parse_date(date_str): the date, None for "-" and for what strptime
\* rejects.
_parse_date(date_str) ==
    IF date_str.text = "%d/%m/%Y" THEN date_str.date ELSE None

\* _parse_bool(value): value.lower() == "yes" if value else False
_parse_bool(value) == value \in {"Yes", "yes", "YES"}

\* str.upper() of the band and state strings of the scenarios.
upper(s) ==
    CASE s = "s" -> "S"
      [] s = "c" -> "C"
      [] s = "vic" -> "VIC"
      [] s = "nsw" -> "NSW"
      [] OTHER -> s

\* RadarInfo(...) of one row of the file: the fields the queries read.
RadarInfo(row) ==
    [id |-> int(row.id), id_long |-> row.id_long,
     radar_type |-> row.radar_type,
     start_date |-> _parse_date(row.postchange_start),
     end_date |-> _parse_date(row.prechange_end),
     band |-> row.band, dual_pol |-> _parse_bool(row.dp),
     state |-> row.state]

\* int(row["id"]) raises ValueError: the row is skipped.
Malformed(row) == row.id = <<>> \/ ~AllDigits(row.id)

RECURSIVE ParseRows(_)
\* The loop over csv.DictReader: one RadarInfo per row, malformed rows
\* skipped.
ParseRows(rows) ==
    IF rows = <<>> THEN <<>>
    ELSE IF Malformed(rows[1]) THEN ParseRows(Tail(rows))
         ELSE <<RadarInfo(rows[1])>> \o ParseRows(Tail(rows))

\* The body of _load_radar_site_list: KeyError on every row of a file
\* whose header lacks a required column.
ReadSiteList(file) ==
    IF file.header THEN ParseRows(file.rows) ELSE <<>>

SiteListNotFound(csv_path) ==
    [kind |-> "error", exc |-> "FileNotFoundError", path |-> csv_path]

CacheValue(radars) == [kind |-> "value", value |-> radars]

\* Mutant: no lru_cache, the file read by every call.
_load_radar_site_list_uncached(slot, files, root) ==
    LET csv_path == radar_site_list_path(root)
    IN  IF files[csv_path] = None
        THEN [cache |-> slot, read |-> FALSE,
              out |-> SiteListNotFound(csv_path)]
        ELSE [cache |-> CacheValue(ReadSiteList(files[csv_path])),
              read |-> TRUE,
              out |-> [kind |-> "list",
                       list |-> ReadSiteList(files[csv_path])]]

\* _load_radar_site_list() under @lru_cache(maxsize=1): the slot after the
\* call, whether the file was read, and the value or the exception. An
\* exception is not cached.
_load_radar_site_list(slot, files, root) ==
    LET csv_path == radar_site_list_path(root)
    IN  IF slot # None
        THEN [cache |-> slot, read |-> FALSE,
              out |-> [kind |-> "list", list |-> slot.value]]
        ELSE IF files[csv_path] = None
        THEN [cache |-> slot, read |-> FALSE,
              out |-> SiteListNotFound(csv_path)]
        ELSE [cache |-> CacheValue(ReadSiteList(files[csv_path])),
              read |-> TRUE,
              out |-> [kind |-> "list",
                       list |-> ReadSiteList(files[csv_path])]]

\* [r for r in radars if test(r)]
Select(radars, Test(_)) == SelectSeq(radars, Test)

is_current(r) == r.end_date = None

\* RadarInfo.active_at(dt) of a date dt.
active_at(r, dt) ==
    /\ ~(r.start_date # None /\ ToOrdinal(dt) < ToOrdinal(r.start_date))
    /\ ~(r.end_date # None /\ ToOrdinal(dt) > ToOrdinal(r.end_date))

\* list_radars(current_only, band, state, dual_pol_only) on the loaded list.
list_radars(radars, current_only, band, state, dual_pol_only) ==
    LET Current(r) == current_only => is_current(r)
        Band(r) == band # None => upper(r.band) = upper(band.s)
        State(r) == state # None => upper(r.state) = upper(state.s)
        DualPol(r) == dual_pol_only => r.dual_pol
        Keep(r) == Current(r) /\ Band(r) /\ State(r) /\ DualPol(r)
    IN  [kind |-> "radars", list |-> Select(radars, Keep)]

\* key=lambda r: r.start_date or date.min
StartKey(r) == IF r.start_date = None THEN 1 ELSE ToOrdinal(r.start_date)

RECURSIVE MaxByStart(_, _, _)
\* max(matches, key=...): the first of the items with the greatest key.
MaxByStart(matches, i, best) ==
    IF i > Len(matches) THEN matches[best]
    ELSE MaxByStart(matches, i + 1,
                    IF StartKey(matches[i]) > StartKey(matches[best])
                    THEN i ELSE best)

\* get_radar(radar_id, at_date) on the loaded list.
get_radar(radars, radar_id, at_date) ==
    LET rid == int_arg(radar_id)
        Match(r) == r.id = rid
        matches == Select(radars, Match)
        Active(r) == active_at(r, at_date)
        active == IF at_date = None THEN <<>> ELSE Select(matches, Active)
        current == Select(matches, is_current)
    IN  IF matches = <<>> THEN ValueError("No radar found with ID")
        ELSE IF active # <<>> THEN [kind |-> "radar", radar |-> active[1]]
        ELSE IF current # <<>> THEN [kind |-> "radar", radar |-> current[1]]
        ELSE [kind |-> "radar", radar |-> MaxByStart(matches, 1, 1)]

RECURSIVE SortedInts(_)
\* sorted(S) of a set of integers.
SortedInts(S) ==
    IF S = {} THEN <<>>
    ELSE LET m == CHOOSE x \in S : \A y \in S : x <= y
         IN  <<m>> \o SortedInts(S \ {m})

\* get_radar_ids() on the loaded list.
get_radar_ids(radars) ==
    [kind |-> "ids",
     list |-> SortedInts({ radars[i].id : i \in 1..Len(radars) })]

-----------------------------------------------------------------------------
(* The calls, their inputs and the specifications                          *)

PathValue(p) == [kind |-> "path", path |-> p]

\* The archive root of the scenarios, set as the test fixture sets it.
Root == "/archive"

\* The program at start: nothing configured, nothing called.
Start ==
    /\ _base_path = PathValue(Root)
    /\ environ = None
    /\ volumes = VolumeList(<<>>)
    /\ res = Idle
    /\ last_set = PathValue(Root)
    /\ disk = {}
    /\ opened = {}
    /\ heap = <<>>
    /\ colls = <<>>
    /\ held = {}
    /\ csv_files = << >>
    /\ cache = None
    /\ loads = <<>>
    /\ workers = << >>
    /\ handles = {}

\* The caller takes the outcome; the next call can be made.
Return ==
    /\ res # Idle
    /\ "out" \in DOMAIN res
    /\ res' = Idle
    /\ UNCHANGED <<archive, _base_path, environ, volumes, last_set, fileVars,
                   heapVars, radarVars, workerVars>>

(* Names handed to LazyVolume.from_filename: every combination of a radar  *)
(* part, a date part, a time part and a tail, right and wrong.             *)

RadarParts ==
    { <<"2">>, <<"0", "0", "2">>, <<"6", "4">>, <<>>, <<"a">>, <<"U+FF12">> }

DateParts ==
    { <<"2", "0", "2", "5", "1", "0", "1", "6">>,
      <<"2", "0", "2", "4", "0", "2", "2", "9">>,
      <<"2", "0", "2", "5", "0", "2", "2", "9">>,
      <<"2", "0", "2", "5", "1", "3", "0", "1">>,
      <<"2", "0", "2", "5", "1", "0", "0", "0">>,
      <<"0", "0", "0", "0", "0", "1", "0", "1">>,
      <<"2", "0", "2", "5", "1", "0", "1">>,
      <<"2", "0", "2", "5", "1", "0", "1", "a">> }

TimeParts ==
    { <<"1", "2", "3", "4", "5", "6">>,
      <<"0", "0", "0", "0", "0", "0">>,
      <<"2", "3", "5", "9", "5", "9">>,
      <<"2", "4", "0", "0", "0", "0">>,
      <<"1", "2", "6", "0", "0", "0">>,
      <<"1", "2", "3", "4", "6", "0">>,
      <<"1", "2", "3", "4", "5">> }

TailParts ==
    { <<".", "p", "v", "o", "l", ".", "h", "5">>,
      <<".", "p", "v", "o", "l", ".", "h", "5", "\n">>,
      <<".", "p", "v", "o", "l", ".", "h", "5", "\n", "\n">>,
      <<".", "p", "v", "o", "l", ".", "h", "5", "x">>,
      <<"x", "p", "v", "o", "l", ".", "h", "5">>,
      <<".", "p", "v", "o", "l", ".", "z", "i", "p">>,
      <<".", "h", "5">> }

Name(radar, date, time, tail) == radar \o <<"_">> \o date \o <<"_">> \o time \o tail

TestNames ==
    { Name(r, d, t, x) : r \in RadarParts, d \in DateParts,
                         t \in TimeParts, x \in TailParts }
      \cup { <<"i", "n", "v", "a", "l", "i", "d", ".", "h", "5">>, <<>> }

ZipArgs == { <<Root, <<"t", "e", "s", "t", ".", "z", "i", "p">> >>,
             <<Root, <<"o", "t", "h", "e", "r", ".", "z", "i", "p">> >> }

\* A call of LazyVolume.from_filename(zip_path, filename).
FromFilename ==
    \E zp \in ZipArgs, name \in TestNames :
        /\ res = Idle
        /\ res' = [op |-> "from_filename", zip_path |-> zp, filename |-> name,
                   out |-> from_filename(zp, name)]
        /\ UNCHANGED <<archive, _base_path, environ, volumes, last_set,
                       fileVars, heapVars, radarVars, workerVars>>

InitName == Start /\ archive = << >>

NextName == FromFilename \/ Return

SpecName == InitName /\ [][NextName]_vars

-----------------------------------------------------------------------------
(* SpecList: collections built from references and queried                 *)

MaxListLen == 3

ZipA == <<Root, <<"t", "e", "s", "t", ".", "z", "i", "p">> >>
ZipB == <<Root, <<"o", "t", "h", "e", "r", ".", "z", "i", "p">> >>

Digits20251016 == <<"2", "0", "2", "5", "1", "0", "1", "6">>
Digits20251017 == <<"2", "0", "2", "5", "1", "0", "1", "7">>
Digits120000 == <<"1", "2", "0", "0", "0", "0">>
Digits120100 == <<"1", "2", "0", "1", "0", "0">>
Digits000000 == <<"0", "0", "0", "0", "0", "0">>

\* The references the collections are made of: 12:00:00 and 12:01:00 of one
\* day, a second reference at 12:01:00, and midnight of the next day.
Pool ==
    { from_filename(ZipA, Name(<<"2">>, Digits20251016, Digits120000, VolumeSuffix)).vol,
      from_filename(ZipA, Name(<<"2">>, Digits20251016, Digits120100, VolumeSuffix)).vol,
      from_filename(ZipB, Name(<<"0", "0", "2">>, Digits20251016, Digits120100, VolumeSuffix)).vol,
      from_filename(ZipB, Name(<<"2">>, Digits20251017, Digits000000, VolumeSuffix)).vol }

SeqsUpTo(S, n) == UNION { [1..k -> S] : k \in 0..n }

Day16 == [year |-> 2025, month |-> 10, day |-> 16]
Day17 == [year |-> 2025, month |-> 10, day |-> 17]

\* Targets: on a reference, half way between two, a microsecond off half
\* way, half way across midnight, before the first and after the last.
Targets ==
    { MkDateTime(Day16, 12, 0, 0, 0),
      MkDateTime(Day16, 12, 0, 30, 0),
      MkDateTime(Day16, 12, 0, 30, 1),
      MkDateTime(Day16, 18, 0, 30, 0),
      MkDateTime(Day16, 11, 59, 59, 500000),
      MkDateTime(Day17, 0, 0, 30, 0) }

\* tolerance_seconds, as floats: 0, 0.5, 30, 60 and 21570 (5 h 59 min 30 s).
Tolerances == { <<0, 0>>, <<0, 500000>>, <<30, 0>>, <<60, 0>>, <<21570, 0>> }

\* VolumeList(list) of a list of references in any order.
NewVolumeList ==
    \E list \in SeqsUpTo(Pool, MaxListLen) :
        /\ res = Idle
        /\ volumes' = VolumeList(list)
        /\ UNCHANGED <<archive, _base_path, environ, res, last_set, fileVars,
                       heapVars, radarVars, workerVars>>

\* volumes = volumes.sort(reverse=...)
SortList ==
    \E reverse \in BOOLEAN :
        /\ res = Idle
        /\ volumes' = sort(volumes, reverse)
        /\ UNCHANGED <<archive, _base_path, environ, res, last_set, fileVars,
                       heapVars, radarVars, workerVars>>

\* volumes = volumes + VolumeList(other)
AddList ==
    \E other \in SeqsUpTo(Pool, MaxListLen) :
        /\ res = Idle
        /\ other # <<>>
        /\ Len(volumes) + Len(other) <= MaxListLen
        /\ volumes' = add(volumes, VolumeList(other))
        /\ UNCHANGED <<archive, _base_path, environ, res, last_set, fileVars,
                       heapVars, radarVars, workerVars>>

\* volumes.nearest(target)
Nearest ==
    \E target \in Targets :
        /\ res = Idle
        /\ res' = [op |-> "nearest", self |-> volumes, target |-> target,
                   out |-> nearest(volumes, target)]
        /\ UNCHANGED <<archive, _base_path, environ, volumes, last_set,
                       fileVars, heapVars, radarVars, workerVars>>

\* volumes.at(target, tolerance_seconds)
At ==
    \E target \in Targets, tol \in Tolerances :
        /\ res = Idle
        /\ res' = [op |-> "at", self |-> volumes, target |-> target,
                   tolerance_seconds |-> tol,
                   out |-> at(volumes, target, tol)]
        /\ UNCHANGED <<archive, _base_path, environ, volumes, last_set,
                       fileVars, heapVars, radarVars, workerVars>>

\* The bounds handed to filter(): none, or one of three of the targets.
Bounds ==
    { None,
      MkDateTime(Day16, 12, 0, 0, 0),
      MkDateTime(Day16, 12, 0, 30, 0),
      MkDateTime(Day17, 0, 0, 30, 0) }

\* The predicates handed to filter(): none, lambda v: True, lambda v: False
\* and lambda v: v.zip_path == ZipA.
Predicates ==
    { None, Callable(Pool), Callable({}),
      Callable({v \in Pool : v.zip_path = ZipA}) }

\* volumes.filter(start, end, predicate)
Filter ==
    \E start \in Bounds, end \in Bounds, predicate \in Predicates :
        /\ res = Idle
        /\ res' = [op |-> "filter", self |-> volumes, start |-> start,
                   end |-> end, predicate |-> predicate,
                   out |-> filter(volumes, start, end, predicate)]
        /\ UNCHANGED <<archive, _base_path, environ, volumes, last_set,
                       fileVars, heapVars, radarVars, workerVars>>

InitList == Start /\ archive = << >>

NextList ==
    NewVolumeList \/ SortList \/ AddList \/ Nearest \/ At \/ Filter \/ Return

SpecList == InitList /\ [][NextList]_vars

-----------------------------------------------------------------------------
(* SpecQuery: get_vol on an archive                                        *)

MaxEntries == 2

Day15 == [year |-> 2025, month |-> 10, day |-> 15]

PvolZip == <<".", "p", "v", "o", "l", ".", "z", "i", "p">>

\* The containers of radar 2, laid out as the archive lays them out:
\* <root>/2/2025/vol/2_20251016.pvol.zip and 2_20251017.pvol.zip.
Zip16 == <<Root, <<"2">>, <<"2", "0", "2", "5">>, "vol",
           <<"2", "_">> \o Digits20251016 \o PvolZip>>
Zip17 == <<Root, <<"2">>, <<"2", "0", "2", "5">>, "vol",
           <<"2", "_">> \o Digits20251017 \o PvolZip>>

\* Entry names: three volumes, a file that is no volume, and a name of the
\* right shape whose date is no date.
EntryNames ==
    { Name(<<"2">>, Digits20251016, Digits120000, VolumeSuffix),
      Name(<<"2">>, Digits20251016, Digits120100, VolumeSuffix),
      Name(<<"2">>, Digits20251017, Digits120000, VolumeSuffix),
      <<"R", "E", "A", "D", "M", "E">>,
      Name(<<"2">>, <<"2", "0", "2", "5", "1", "3", "1", "6">>, Digits120000,
           VolumeSuffix) }

Containers == {NoFile} \cup { ZipFile(n) : n \in SeqsUpTo(EntryNames, MaxEntries) }

EntryCount(c) == IF c.exists THEN Len(c.names) ELSE 0

\* The directory trees: each container missing or holding entries, at most
\* MaxEntries entries in all.
Archives ==
    { a \in [{Zip16, Zip17} -> Containers] :
        EntryCount(a[Zip16]) + EntryCount(a[Zip17]) <= MaxEntries }

IntArg(n) == [type |-> "int", n |-> n]
StrArg(s) == [type |-> "str", s |-> s]
NoneArg == [type |-> "NoneType"]

DateArg(d) == [type |-> "date", year |-> d.year, month |-> d.month, day |-> d.day]

\* timezone(timedelta(minutes=m))
Timezone(m) == [kind |-> "timezone", utcoffset |-> m]

DateTimeArg(d, h, mi, s, us, tz) ==
    [type |-> "datetime", year |-> d.year, month |-> d.month, day |-> d.day,
     hour |-> h, minute |-> mi, second |-> s, microsecond |-> us,
     tzinfo |-> tz]

RadarArgs == { IntArg(2), StrArg(<<"0", "0", "2">>), IntArg(3) }

DateArgs == { DateArg(Day15), DateArg(Day16), DateArg(Day17) }

NaiveArgs ==
    { DateTimeArg(Day16, 0, 0, 0, 0, None),
      DateTimeArg(Day16, 0, 0, 0, 1, None),
      DateTimeArg(Day16, 12, 0, 30, 0, None),
      DateTimeArg(Day16, 12, 0, 30, 600000, None),
      DateTimeArg(Day16, 14, 0, 0, 0, None),
      DateTimeArg(Day17, 0, 0, 0, 0, None),
      DateTimeArg(Day17, 12, 0, 30, 0, None) }

\* Aware datetimes in UTC+10, UTC-5 and UTC.
AwareArgs ==
    { DateTimeArg(Day16, 10, 0, 0, 0, Timezone(600)),
      DateTimeArg(Day16, 22, 0, 30, 0, Timezone(600)),
      DateTimeArg(Day17, 0, 0, 0, 0, Timezone(600)),
      DateTimeArg(Day17, 10, 0, 0, 0, Timezone(600)),
      DateTimeArg(Day16, 19, 0, 0, 0, Timezone(-300)),
      DateTimeArg(Day16, 7, 0, 30, 0, Timezone(-300)),
      DateTimeArg(Day16, 0, 0, 0, 0, Timezone(0)) }

\* nearest= and tolerance_seconds= as passed together; 60.0 is the default.
Modes ==
    { [nearest |-> TRUE, tolerance_seconds |-> <<60, 0>>],
      [nearest |-> FALSE, tolerance_seconds |-> <<60, 0>>],
      [nearest |-> FALSE, tolerance_seconds |-> <<30, 0>>],
      [nearest |-> FALSE, tolerance_seconds |-> <<0, 0>>] }

\* The record of a call get_vol(radar_id, time_or_date, end_date, **mode)
\* made on the tree fs with the archive root root.
GetVolCall(fs, root, radar_id, time_or_date, end_date, mode) ==
    [op |-> "get_vol", radar_id |-> radar_id,
     time_or_date |-> time_or_date, end_date |-> end_date,
     nearest |-> mode.nearest,
     tolerance_seconds |-> mode.tolerance_seconds,
     out |-> get_vol(fs, root, radar_id, time_or_date, end_date,
                     mode.nearest, mode.tolerance_seconds)]

DefaultMode == [nearest |-> FALSE, tolerance_seconds |-> <<60, 0>>]

\* get_vol(radar_id, date)
GetVolDay ==
    \E r \in RadarArgs, d \in DateArgs :
        /\ res = Idle
        /\ res' = GetVolCall(archive, get_base_path(_base_path, environ),
                             r, d, NoneArg, DefaultMode)
        /\ UNCHANGED <<archive, _base_path, environ, volumes, last_set,
                       fileVars, heapVars, radarVars, workerVars>>

\* get_vol(radar_id, start, end)
GetVolRange ==
    \E r \in {IntArg(2), IntArg(3)}, d \in DateArgs, e \in DateArgs :
        /\ res = Idle
        /\ res' = GetVolCall(archive, get_base_path(_base_path, environ),
                             r, d, e, DefaultMode)
        /\ UNCHANGED <<archive, _base_path, environ, volumes, last_set,
                       fileVars, heapVars, radarVars, workerVars>>

\* get_vol(radar_id, datetime, nearest=..., tolerance_seconds=...)
GetVolInstant ==
    \E t \in NaiveArgs \cup AwareArgs, m \in Modes :
        /\ res = Idle
        /\ res' = GetVolCall(archive, get_base_path(_base_path, environ),
                             IntArg(2), t, NoneArg, m)
        /\ UNCHANGED <<archive, _base_path, environ, volumes, last_set,
                       fileVars, heapVars, radarVars, workerVars>>

\* get_vol with a first argument of another type, or a datetime and an end.
GetVolOther ==
    \E t \in {StrArg(Digits20251016), DateTimeArg(Day16, 0, 0, 0, 0, None)},
       e \in {NoneArg, DateArg(Day17)} :
        /\ res = Idle
        /\ (t.type = "datetime" => e # NoneArg)
        /\ res' = GetVolCall(archive, get_base_path(_base_path, environ),
                             IntArg(2), t, e, DefaultMode)
        /\ UNCHANGED <<archive, _base_path, environ, volumes, last_set,
                       fileVars, heapVars, radarVars, workerVars>>

\* has_data(radar_id, day)
HasData ==
    \E r \in RadarArgs, d \in DateArgs :
        /\ res = Idle
        /\ res' = [op |-> "has_data", radar_id |-> r, day |-> d,
                   out |-> [kind |-> "bool",
                            value |-> has_data(archive,
                                        get_base_path(_base_path, environ),
                                        r, d)]]
        /\ UNCHANGED <<archive, _base_path, environ, volumes, last_set,
                       fileVars, heapVars, radarVars, workerVars>>

InitQuery == Start /\ archive \in Archives

NextQuery ==
    \/ GetVolDay \/ GetVolRange \/ GetVolInstant \/ GetVolOther \/ HasData
    \/ Return

SpecQuery == InitQuery /\ [][NextQuery]_vars

-----------------------------------------------------------------------------
(* The scan of one container                                               *)

MaxScanLen == 3

\* Entry names of the scanned container: two volumes a minute apart, a
\* second name for the earlier time (the radar written 002), that name
\* with a line feed at its end, a file that is no volume and a name of
\* the right shape whose date is no date.
ScanEntryNames ==
    { Name(<<"2">>, Digits20251016, Digits120100, VolumeSuffix),
      Name(<<"2">>, Digits20251016, Digits120000, VolumeSuffix),
      Name(<<"0", "0", "2">>, Digits20251016, Digits120000, VolumeSuffix),
      Name(<<"2">>, Digits20251016, Digits120000, VolumeSuffix \o <<"\n">>),
      <<"R", "E", "A", "D", "M", "E">>,
      Name(<<"2">>, <<"2", "0", "2", "5", "1", "3", "1", "6">>, Digits120000,
           VolumeSuffix) }

\* The container is missing or enumerates up to MaxScanLen entries, the
\* same name more than once included.
ScanContainers ==
    {NoFile} \cup { ZipFile(n) : n \in SeqsUpTo(ScanEntryNames, MaxScanLen) }

\* volumes = _list_volumes_in_zip(zip_file)
ListVolumesInZip ==
    \E zip_file \in {Zip16, Zip17} :
        /\ res = Idle
        /\ res' = [op |-> "_list_volumes_in_zip", zip_file |-> zip_file,
                   out |-> _list_volumes_in_zip(archive, zip_file)]
        /\ UNCHANGED <<archive, _base_path, environ, volumes, last_set,
                       fileVars, heapVars, radarVars, workerVars>>

InitScan == Start /\ \E c \in ScanContainers : archive = (Zip16 :> c)

NextScan == ListVolumesInZip \/ Return

SpecScan == InitScan /\ [][NextScan]_vars

-----------------------------------------------------------------------------
(* Reading and extracting the volume of a reference                        *)

\* The container of 2025-10-16: missing, empty, or holding one or both of
\* two volumes.
ReadArchives ==
    { (Zip16 :> c) :
        c \in {NoFile} \cup
              { ZipFile(n) :
                  n \in { <<>>,
                          <<Name(<<"2">>, Digits20251016, Digits120000, VolumeSuffix)>>,
                          <<Name(<<"2">>, Digits20251016, Digits120100, VolumeSuffix)>>,
                          <<Name(<<"2">>, Digits20251016, Digits120000, VolumeSuffix),
                            Name(<<"2">>, Digits20251016, Digits120100, VolumeSuffix)>> } } }

Sub == <<"s", "u", "b">>

\* The directories handed to extract_to, as tuples of path components.
Directories == { <<"/out">>, <<"/out", Sub>>, <<"/scratch">> }

\* volumes = VolumeList(_list_volumes_in_zip(zip_file)): the references of
\* the container as it is now.
ScanContainer ==
    /\ res = Idle
    /\ volumes' = VolumeList(_list_volumes_in_zip(archive, Zip16))
    /\ volumes' # volumes
    /\ UNCHANGED <<archive, _base_path, environ, res, last_set, fileVars,
                   heapVars, radarVars, workerVars>>

\* The archive changes under the references: the container goes, comes
\* back, loses or gains entries.
ArchiveChanges ==
    /\ res = Idle
    /\ \E a \in ReadArchives : a # archive /\ archive' = a
    /\ UNCHANGED <<_base_path, environ, volumes, res, last_set, fileVars,
                   heapVars, radarVars, workerVars>>

\* vol.read(), up to the call of pyodim.read_odim(tmp_path): the import of
\* pyodim, the payload read from the zip, the temporary file written.
Read ==
    \E i \in 1..Len(volumes), pyodim \in BOOLEAN :
        LET self == volumes[i]
            data == zf_open(archive, self)
        IN  /\ res = Idle
            /\ IF ~pyodim
               THEN /\ res' = [op |-> "read", self |-> self, pyodim |-> pyodim,
                               out |-> ImportError]
                    /\ UNCHANGED fileVars
               ELSE IF data.kind = "error"
               THEN /\ res' = [op |-> "read", self |-> self, pyodim |-> pyodim,
                               out |-> data]
                    /\ UNCHANGED fileVars
               ELSE /\ res' = [op |-> "read", self |-> self, pyodim |-> pyodim,
                               tmp_path |-> TmpPath]
                    /\ opened' = opened \cup {<<self.zip_path, self.filename>>}
                    /\ disk' = write(disk, TmpPath,
                                      Bytes(self.zip_path, self.filename))
            /\ UNCHANGED <<archive, _base_path, environ, volumes, last_set,
                           heapVars, radarVars, workerVars>>

\* The rest of vol.read(): pyodim.read_odim(tmp_path) returns the data or
\* raises, and the finally clause unlinks the temporary file.
ReadOdim ==
    /\ res.op \in {"read", "read_vol"}
    /\ "tmp_path" \in DOMAIN res
    /\ \E decoded \in BOOLEAN :
           LET out == IF decoded
                      THEN [kind |-> "dataset", of |-> res.self.filename]
                      ELSE [kind |-> "error", exc |-> "Exception"]
           IN
           /\ res' = IF res.op = "read"
                     THEN [op |-> "read", self |-> res.self,
                           pyodim |-> res.pyodim, out |-> out]
                     ELSE [op |-> "read_vol", radar_id |-> res.radar_id,
                           time |-> res.time, nearest |-> res.nearest,
                           vol |-> res.vol, pyodim |-> res.pyodim,
                           out |-> out]
           /\ disk' = unlink(disk, res.tmp_path, ~decoded)
    /\ UNCHANGED <<archive, _base_path, environ, volumes, last_set, opened,
                   heapVars, radarVars, workerVars>>

\* vol.read_h5py(): the payload read from the zip and opened by h5py from
\* memory; h5py raises OSError on a payload that is no HDF5 file.
ReadH5py ==
    \E i \in 1..Len(volumes), is_hdf5 \in BOOLEAN :
        LET self == volumes[i]
            data == zf_open(archive, self)
        IN  /\ res = Idle
            /\ res' = [op |-> "read_h5py", self |-> self,
                       out |-> IF data.kind = "error" THEN data
                               ELSE IF is_hdf5
                               THEN [kind |-> "h5py.File", of |-> self.filename]
                               ELSE [kind |-> "error", exc |-> "OSError"]]
            /\ opened' = IF data.kind = "error" THEN opened
                         ELSE opened \cup {<<self.zip_path, self.filename>>}
            /\ UNCHANGED <<archive, _base_path, environ, volumes, last_set,
                           disk, heapVars, radarVars, workerVars>>

\* vol.extract_to(directory): the directory made first, then the entry
\* extracted into it, over a file of that name if there is one.
ExtractTo ==
    \E i \in 1..Len(volumes), directory \in Directories :
        LET self == volumes[i]
            made == mkdir(disk, directory)
            data == zf_open(archive, self)
            output_path == directory \o <<self.filename>>
        IN  /\ res = Idle
            /\ res' = [op |-> "extract_to", self |-> self,
                       directory |-> directory,
                       out |-> IF ~made.ok THEN FileExistsError
                               ELSE IF data.kind = "error" THEN data
                               ELSE [kind |-> "path", path |-> output_path]]
            /\ disk' = IF ~made.ok \/ data.kind = "error" THEN made.disk
                       ELSE write(made.disk, output_path,
                                  Bytes(self.zip_path, self.filename))
            /\ opened' = IF ~made.ok \/ data.kind = "error" THEN opened
                         ELSE opened \cup {<<self.zip_path, self.filename>>}
            /\ UNCHANGED <<archive, _base_path, environ, volumes, last_set,
                           heapVars, radarVars, workerVars>>

InitRead == Start /\ archive \in ReadArchives

NextRead ==
    \/ ScanContainer
    \/ ArchiveChanges
    \/ Read
    \/ ReadOdim
    \/ ReadH5py
    \/ ExtractTo
    \/ Return

SpecRead == InitRead /\ [][NextRead]_vars

(* extract_to on a disk that holds directories and files already.          *)

StaleBytes == Bytes(ZipB, <<"o", "l", "d">>)

\* What the disk may hold before the first call: /out with a file of the
\* name of a volume and a file of another name, and a file where the
\* directory /scratch would be.
Disks ==
    { {}, {OnDisk(<<"/out">>, Dir)},
      {OnDisk(<<"/out">>, Dir),
       OnDisk(<<"/out", <<"n", "o", "t", "e", "s">>>>, StaleBytes)},
      {OnDisk(<<"/out">>, Dir),
       OnDisk(<<"/out", <<"n", "o", "t", "e", "s">>>>, StaleBytes),
       OnDisk(<<"/out", Name(<<"2">>, Digits20251016, Digits120000,
                              VolumeSuffix)>>, StaleBytes)},
      {OnDisk(<<"/scratch">>, StaleBytes)} }

InitExtract ==
    /\ archive \in ReadArchives
    /\ _base_path = PathValue(Root)
    /\ environ = None
    /\ volumes = VolumeList(<<>>)
    /\ res = Idle
    /\ last_set = PathValue(Root)
    /\ disk \in Disks
    /\ opened = {}
    /\ heap = <<>>
    /\ colls = <<>>
    /\ held = {}
    /\ csv_files = << >>
    /\ cache = None
    /\ loads = <<>>
    /\ workers = << >>
    /\ handles = {}

NextExtract == ScanContainer \/ ArchiveChanges \/ ExtractTo \/ Return

SpecExtract == InitExtract /\ [][NextExtract]_vars

(* read_vol: the query and the read in one call.                           *)

\* vol.read() where vol has no attribute read.
AttributeError == [kind |-> "error", exc |-> "AttributeError"]

\* read_vol(radar_id, time, nearest=...), up to the call of
\* pyodim.read_odim: vol = get_vol(radar_id, time, nearest=nearest), then
\* vol.read() as far as its temporary file.
ReadVol ==
    /\ res = Idle
    /\ \E t \in NaiveArgs \cup AwareArgs, is_nearest \in BOOLEAN,
          pyodim \in BOOLEAN :
        \E vol \in {get_vol(archive, get_base_path(_base_path, environ),
                            IntArg(2), t, NoneArg, is_nearest, <<60, 0>>)} :
          LET Raised(out) ==
                  [op |-> "read_vol", radar_id |-> IntArg(2), time |-> t,
                   nearest |-> is_nearest, vol |-> vol, pyodim |-> pyodim,
                   out |-> out]
          IN  IF vol.kind = "error"
              THEN /\ res' = Raised(vol)
                   /\ UNCHANGED fileVars
              ELSE IF vol.kind # "vol"
              THEN /\ res' = Raised(AttributeError)
                   /\ UNCHANGED fileVars
              ELSE IF ~pyodim
              THEN /\ res' = Raised(ImportError)
                   /\ UNCHANGED fileVars
              ELSE IF zf_open(archive, vol.vol).kind = "error"
              THEN /\ res' = Raised(zf_open(archive, vol.vol))
                   /\ UNCHANGED fileVars
              ELSE /\ res' = [op |-> "read_vol", radar_id |-> IntArg(2),
                              time |-> t, nearest |-> is_nearest,
                              vol |-> vol, pyodim |-> pyodim,
                              self |-> vol.vol, tmp_path |-> TmpPath]
                   /\ opened' = opened \cup
                                   {<<vol.vol.zip_path, vol.vol.filename>>}
                   /\ disk' = write(disk, TmpPath,
                                    Bytes(vol.vol.zip_path, vol.vol.filename))
    /\ UNCHANGED <<archive, _base_path, environ, volumes, last_set,
                   heapVars, radarVars, workerVars>>

InitReadVol == Start /\ archive \in Archives

NextReadVol == ReadVol \/ ReadOdim \/ Return

SpecReadVol == InitReadVol /\ [][NextReadVol]_vars

-----------------------------------------------------------------------------
(* Collections and the lists of their caller                               *)

MaxHeap == 3

\* The lists the caller builds: empty, one reference, two references the
\* later one first.
CallerLists ==
    { <<>>,
      <<from_filename(ZipA, Name(<<"2">>, Digits20251016, Digits120000, VolumeSuffix)).vol>>,
      <<from_filename(ZipA, Name(<<"2">>, Digits20251016, Digits120100, VolumeSuffix)).vol,
        from_filename(ZipA, Name(<<"2">>, Digits20251016, Digits120000, VolumeSuffix)).vol>> }

Room == Len(heap) < MaxHeap

\* The caller holds the list object at address a, which it handed to the
\* constructor of collection c or got from c.to_list() (c = 0: neither yet).
Holding(a, c) == [list |-> a, coll |-> c]

\* The collection made by an operation joins the collections built.
Built(new) ==
    /\ heap' = new.heap
    /\ colls' = Append(colls, new.addr)

\* lst = [...]
NewList ==
    \E list \in CallerLists :
        /\ res = Idle /\ Room
        /\ heap' = Append(heap, list)
        /\ held' = held \cup {Holding(Len(heap) + 1, 0)}
        /\ UNCHANGED <<archive, _base_path, environ, volumes, res, last_set,
                       fileVars, colls, radarVars, workerVars>>

\* VolumeList(lst), VolumeList()
Construct ==
    \E a \in {0} \cup {h.list : h \in held} :
        /\ res = Idle /\ Room
        /\ Built(VolumeList__init__(heap, a))
        /\ held' = IF a = 0 THEN held
                   ELSE held \cup {Holding(a, Len(colls) + 1)}
        /\ res' = [op |-> "VolumeList", volumes |-> a,
                   out |-> Len(colls) + 1]
        /\ UNCHANGED <<archive, _base_path, environ, volumes, last_set,
                       fileVars, radarVars, workerVars>>

\* vl.filter(), vl.filter(start=...)
FilterObject ==
    \E c \in 1..Len(colls), start \in {None, MkDateTime(Day16, 12, 0, 30, 0)} :
        /\ res = Idle /\ Room
        /\ Built(filter_object(heap, colls[c], start, None, None))
        /\ res' = [op |-> "VolumeList.filter", self |-> c, start |-> start,
                   out |-> Len(colls) + 1]
        /\ UNCHANGED <<archive, _base_path, environ, volumes, last_set,
                       fileVars, held, radarVars, workerVars>>

\* vl.sort(reverse)
SortObject ==
    \E c \in 1..Len(colls), reverse \in BOOLEAN :
        /\ res = Idle /\ Room
        /\ Built(VolumeListOf(heap, sorted(heap[colls[c]], reverse)))
        /\ res' = [op |-> "VolumeList.sort", self |-> c, reverse |-> reverse,
                   out |-> Len(colls) + 1]
        /\ UNCHANGED <<archive, _base_path, environ, volumes, last_set,
                       fileVars, held, radarVars, workerVars>>

\* vl + other
AddObjects ==
    \E c \in 1..Len(colls), other \in 1..Len(colls) :
        /\ res = Idle /\ Room
        /\ Built(VolumeListOf(heap, heap[colls[c]] \o heap[colls[other]]))
        /\ res' = [op |-> "VolumeList.__add__", self |-> c, other |-> other,
                   out |-> Len(colls) + 1]
        /\ UNCHANGED <<archive, _base_path, environ, volumes, last_set,
                       fileVars, held, radarVars, workerVars>>

\* vl[0:1], vl[1:2]
SliceObject ==
    \E c \in 1..Len(colls), lo \in {0, 1} :
        /\ res = Idle /\ Room
        /\ Built(getitem_slice(heap, colls[c], lo, lo + 1))
        /\ res' = [op |-> "VolumeList.__getitem__", self |-> c, lo |-> lo,
                   out |-> Len(colls) + 1]
        /\ UNCHANGED <<archive, _base_path, environ, volumes, last_set,
                       fileVars, held, radarVars, workerVars>>

\* lst = vl.to_list()
ToList ==
    \E c \in 1..Len(colls) :
        /\ res = Idle /\ Room
        /\ heap' = to_list(heap, colls[c]).heap
        /\ held' = held \cup {Holding(to_list(heap, colls[c]).addr, c)}
        /\ res' = [op |-> "VolumeList.to_list", self |-> c,
                   out |-> to_list(heap, colls[c]).addr]
        /\ UNCHANGED <<archive, _base_path, environ, volumes, last_set,
                       fileVars, colls, radarVars, workerVars>>

\* vl.nearest(target), vl.at(target), list(iter(vl)): nothing is built.
ReadObject ==
    \E c \in 1..Len(colls), method \in {"nearest", "at", "__iter__"} :
        LET target == MkDateTime(Day16, 12, 0, 30, 0)
        IN  /\ res = Idle
            /\ res' = [op |-> "VolumeList." \o method, self |-> c,
                       out |-> CASE method = "nearest" ->
                                      nearest(heap[colls[c]], target)
                                 [] method = "at" ->
                                      at(heap[colls[c]], target, <<60, 0>>)
                                 [] OTHER ->
                                      [kind |-> "list",
                                       list |-> heap[colls[c]]]]
            /\ UNCHANGED <<archive, _base_path, environ, volumes, last_set,
                           fileVars, heapVars, radarVars, workerVars>>

\* The caller changes a list it holds: lst.clear(), lst.reverse(), lst.pop()
MutateList ==
    \E h \in held, method \in {"clear", "reverse", "pop"} :
        LET old == heap[h.list]
        IN  /\ res = Idle
            /\ old # <<>>
            /\ heap' = [heap EXCEPT ![h.list] =
                          CASE method = "clear" -> <<>>
                            [] method = "reverse" ->
                                 [i \in 1..Len(old) |-> old[Len(old) + 1 - i]]
                            [] OTHER -> SubSeq(old, 1, Len(old) - 1)]
            /\ res' = [op |-> "list." \o method, list |-> h.list,
                       coll |-> h.coll, out |-> None]
            /\ UNCHANGED <<archive, _base_path, environ, volumes, last_set,
                           fileVars, colls, held, radarVars, workerVars>>

InitHeap == Start /\ archive = << >>

NextHeap ==
    \/ NewList
    \/ Construct
    \/ FilterObject
    \/ SortObject
    \/ AddObjects
    \/ SliceObject
    \/ ToList
    \/ ReadObject
    \/ MutateList
    \/ Return

SpecHeap == InitHeap /\ [][NextHeap]_vars

-----------------------------------------------------------------------------
(* The archive root                                                        *)

StrValue(s) == [kind |-> "str", s |-> s]

\* The arguments of set_base_path: None, a Path, a str.
PathArgs ==
    { None, PathValue("/archive"), PathValue("/mnt/aura"),
      PathValue("/g/data/hj10"), StrValue("/archive"), StrValue("/archive/"), StrValue("/mnt/aura"),
      StrValue("") }

EnvValue(s) == [kind |-> "str", path |-> s]

\* AURA_BASE_PATH: not set, empty, or a path.
EnvValues ==
    { None, EnvValue(""), EnvValue("/env/aura"), EnvValue("/env/aura/"),
      EnvValue("/archive") }

\* No set_base_path call was made yet.
NoCall == [kind |-> "no call"]

\* set_base_path(path)
SetBasePath ==
    \E path \in PathArgs :
        /\ res = Idle
        /\ _base_path' = set_base_path(path)
        /\ last_set' = path
        /\ res' = [op |-> "set_base_path", path |-> path, out |-> None]
        /\ UNCHANGED <<archive, environ, volumes, fileVars, heapVars,
                       radarVars, workerVars>>

\* os.environ["AURA_BASE_PATH"] = value, del os.environ["AURA_BASE_PATH"]
SetEnviron ==
    \E value \in EnvValues :
        /\ res = Idle
        /\ value # environ
        /\ environ' = value
        /\ UNCHANGED <<archive, _base_path, volumes, res, last_set, fileVars,
                       heapVars, radarVars, workerVars>>

\* get_base_path()
GetBasePath ==
    /\ res = Idle
    /\ res' = [op |-> "get_base_path",
               out |-> get_base_path(_base_path, environ)]
    /\ UNCHANGED <<archive, _base_path, environ, volumes, last_set, fileVars,
                   heapVars, radarVars, workerVars>>

\* The module as imported: _base_path = None, whatever the environment.
InitConfig ==
    /\ archive = << >>
    /\ _base_path = None
    /\ environ \in EnvValues
    /\ volumes = VolumeList(<<>>)
    /\ res = Idle
    /\ last_set = NoCall
    /\ disk = {}
    /\ opened = {}
    /\ heap = <<>>
    /\ colls = <<>>
    /\ held = {}
    /\ csv_files = << >>
    /\ cache = None
    /\ loads = <<>>
    /\ workers = << >>
    /\ handles = {}

NextConfig == SetBasePath \/ SetEnviron \/ GetBasePath \/ Return

SpecConfig == InitConfig /\ [][NextConfig]_vars

-----------------------------------------------------------------------------
(* The fifth group of calls: the radar metadata, with the site list file   *)
(* rewritten and the archive root moved between the calls.                 *)

\* A bound on the history of file reads, never met with the cache in place.
MaxLoads == 2

Row(id, id_long, radar_type, start, end, band, dp, state) ==
    [id |-> id, id_long |-> id_long, radar_type |-> radar_type,
     postchange_start |-> start, prechange_end |-> end, band |-> band,
     dp |-> dp, state |-> state]

CsvFile(header, rows) == [kind |-> "file", header |-> header, rows |-> rows]

\* The site list of the test fixture: three configurations of radar 2.
FixtureCsv ==
    CsvFile(TRUE,
      << Row(<<"2">>, "002_1", "DWSR81C", DateCell(1993, 9, 7),
             DateCell(2007, 7, 30), "C", "", "VIC"),
         Row(<<"2">>, "002_2", "Meteor1500S", DateCell(2007, 7, 31),
             DateCell(2017, 8, 25), "S", "", "VIC"),
         Row(<<"2">>, "002_3", "Meteor1500S", DateCell(2017, 10, 11),
             DashCell, "S", "Yes", "VIC") >>)

\* Another site list: a malformed row, radar 3, and radar 2 with no current
\* configuration.
OtherCsv ==
    CsvFile(TRUE,
      << Row(<<"x">>, "bad", "DWSR81C", DashCell, DashCell, "C", "", "NSW"),
         Row(<<"3">>, "003_1", "DWSR81C", JunkCell, DashCell, "c", "yes",
             "nsw"),
         Row(<<"2">>, "002_1", "DWSR81C", DateCell(1993, 9, 7),
             DateCell(2007, 7, 30), "C", "", "VIC"),
         Row(<<"2">>, "002_2", "Meteor1500S", DateCell(2007, 7, 31),
             DateCell(2017, 8, 25), "S", "", "VIC") >>)

\* A file whose header lacks a required column.
HeaderlessCsv ==
    CsvFile(FALSE,
      << Row(<<"2">>, "002_3", "Meteor1500S", DashCell, DashCell, "S", "Yes",
             "VIC") >>)

CsvContents == { None, FixtureCsv, OtherCsv, HeaderlessCsv }

\* The roots whose site list exists at times; under the others it never
\* does.
SiteRoots == { "/archive", "/mnt/aura" }

NoSiteRoots == { "/g/data/hj10", ".", RQ0_BASE }

AtDates ==
    { None, [year |-> 2010, month |-> 1, day |-> 1],
      [year |-> 2017, month |-> 9, day |-> 1],
      [year |-> 2020, month |-> 1, day |-> 1] }

RadarIdArgs ==
    { [type |-> "int", n |-> 2], [type |-> "str", s |-> <<"0", "0", "2">>],
      [type |-> "int", n |-> 3] }

BandArgs == { None, [kind |-> "str", s |-> "S"], [kind |-> "str", s |-> "c"] }

StateArgs == { None, [kind |-> "str", s |-> "vic"] }

\* The site list under a root is written, rewritten or removed.
WriteCsv ==
    \E root \in SiteRoots, file \in CsvContents :
        /\ res = Idle
        /\ csv_files[radar_site_list_path(root)] # file
        /\ csv_files' = [csv_files EXCEPT ![radar_site_list_path(root)] = file]
        /\ UNCHANGED <<archive, _base_path, environ, volumes, res, last_set,
                       fileVars, heapVars, cache, loads, workerVars>>

\* get_radar(radar_id, at_date)
GetRadar ==
    \E radar_id \in RadarIdArgs, at_date \in AtDates :
        LET load == _load_radar_site_list(cache, csv_files,
                                          get_base_path(_base_path, environ))
        IN  /\ res = Idle
            /\ Len(loads) < MaxLoads
            /\ cache' = load.cache
            /\ loads' = IF load.read THEN Append(loads, load.out.list)
                        ELSE loads
            /\ res' = [op |-> "get_radar", radar_id |-> radar_id,
                       at_date |-> at_date,
                       out |-> IF load.out.kind = "error" THEN load.out
                               ELSE get_radar(load.out.list, radar_id,
                                              at_date)]
            /\ UNCHANGED <<archive, _base_path, environ, volumes, last_set,
                           fileVars, heapVars, csv_files, workerVars>>

\* list_radars(current_only, band, state, dual_pol_only)
ListRadars ==
    \E current_only \in BOOLEAN, band \in BandArgs, state \in StateArgs,
       dual_pol_only \in BOOLEAN :
        LET load == _load_radar_site_list(cache, csv_files,
                                          get_base_path(_base_path, environ))
        IN  /\ res = Idle
            /\ Len(loads) < MaxLoads
            /\ cache' = load.cache
            /\ loads' = IF load.read THEN Append(loads, load.out.list)
                        ELSE loads
            /\ res' = [op |-> "list_radars", current_only |-> current_only,
                       band |-> band, state |-> state,
                       dual_pol_only |-> dual_pol_only,
                       out |-> IF load.out.kind = "error" THEN load.out
                               ELSE list_radars(load.out.list, current_only,
                                                band, state, dual_pol_only)]
            /\ UNCHANGED <<archive, _base_path, environ, volumes, last_set,
                           fileVars, heapVars, csv_files, workerVars>>

\* get_radar_ids()
GetRadarIds ==
    LET load == _load_radar_site_list(cache, csv_files,
                                      get_base_path(_base_path, environ))
    IN  /\ res = Idle
        /\ Len(loads) < MaxLoads
        /\ cache' = load.cache
        /\ loads' = IF load.read THEN Append(loads, load.out.list) ELSE loads
        /\ res' = [op |-> "get_radar_ids",
                   out |-> IF load.out.kind = "error" THEN load.out
                           ELSE get_radar_ids(load.out.list)]
        /\ UNCHANGED <<archive, _base_path, environ, volumes, last_set,
                       fileVars, heapVars, csv_files, workerVars>>

\* The module as the fixture leaves it, nothing loaded yet, a site list
\* under some of the roots.
InitRadar ==
    /\ archive = << >>
    /\ _base_path = PathValue(Root)
    /\ environ = None
    /\ volumes = VolumeList(<<>>)
    /\ res = Idle
    /\ last_set = PathValue(Root)
    /\ disk = {}
    /\ opened = {}
    /\ heap = <<>>
    /\ colls = <<>>
    /\ held = {}
    /\ \E here \in {None, FixtureCsv}, there \in {None, OtherCsv} :
          csv_files =
            [p \in { radar_site_list_path(r) : r \in SiteRoots \cup NoSiteRoots }
               |-> IF p = radar_site_list_path("/archive") THEN here
                   ELSE IF p = radar_site_list_path("/mnt/aura") THEN there
                   ELSE None]
    /\ cache = None
    /\ loads = <<>>
    /\ workers = << >>
    /\ handles = {}

NextRadar ==
    GetRadar \/ ListRadars \/ GetRadarIds \/ SetBasePath \/ WriteCsv \/ Return

SpecRadar == InitRadar /\ [][NextRadar]_vars

-----------------------------------------------------------------------------
(* availability.py, on the directory tree: a directory exists when a file  *)
(* lies under it                                                           *)

\* radar_path(radar_id): get_base_path() / str(int(radar_id))
radar_path(root, rid) == <<root, str(rid)>>

\* vol_path(radar_id, year): radar_path / str(year) / "vol"
vol_path(root, rid, year) == <<root, str(rid), str(year), "vol">>

\* The files of the tree fs that lie under the directory dir.
Under(fs, dir) ==
    { p \in DOMAIN fs :
        /\ fs[p].exists
        /\ Len(p) > Len(dir)
        /\ \A i \in 1..Len(dir) : p[i] = dir[i] }

\* Path.exists() of a directory.
dir_exists(fs, dir) == Under(fs, dir) # {}

RECURSIVE InSomeOrder(_)
\* The items of a set in the order an iteration meets them; the callers sort
\* what they collect.
InSomeOrder(S) ==
    IF S = {} THEN <<>>
    ELSE LET x == CHOOSE y \in S : TRUE IN <<x>> \o InSomeOrder(S \ {x})

\* dir.iterdir(): the names in the directory.
iterdir(fs, dir) ==
    InSomeOrder({ p[Len(dir) + 1] : p \in Under(fs, dir) })

\* item.is_dir() of the item called name in the directory dir.
is_dir(fs, dir, name) ==
    \E p \in Under(fs, dir) : Len(p) > Len(dir) + 1 /\ p[Len(dir) + 1] = name

RECURSIVE SortedYears(_)
\* sorted(years) of a list of integers: each item put after the items that
\* are not greater.
SortedYears(list) ==
    IF list = <<>> THEN <<>>
    ELSE LET done == SortedYears(SubSeq(list, 1, Len(list) - 1))
             x == list[Len(list)]
             k == Cardinality({ i \in 1..Len(done) : done[i] <= x })
         IN  SubSeq(done, 1, k) \o <<x>> \o SubSeq(done, k + 1, Len(done))

RECURSIVE SortedDates(_)
\* sorted(dates) of a list of dates.
SortedDates(list) ==
    IF list = <<>> THEN <<>>
    ELSE LET done == SortedDates(SubSeq(list, 1, Len(list) - 1))
             x == list[Len(list)]
             k == Cardinality({ i \in 1..Len(done) :
                                  ToOrdinal(done[i]) <= ToOrdinal(x) })
         IN  SubSeq(done, 1, k) \o <<x>> \o SubSeq(done, k + 1, Len(done))

\* available_years(radar_id): int(item.name) of the directories that hold a
\* vol directory, sorted.
available_years(fs, root, rid) ==
    LET base == radar_path(root, rid)
        Year(name) ==
            /\ is_dir(fs, base, name)
            /\ name # <<>> /\ AllDigits(name)
            /\ dir_exists(fs, base \o <<name, "vol">>)
        items == SelectSeq(iterdir(fs, base), Year)
    IN  SortedYears([i \in 1..Len(items) |-> int(items[i])])

\* vol_dir.glob("*.pvol.zip"): the names that end in .pvol.zip.
glob(fs, dir) ==
    LET Zip(name) ==
            /\ Len(name) >= Len(PvolZip)
            /\ SubSeq(name, Len(name) - Len(PvolZip) + 1, Len(name)) = PvolZip
    IN  SelectSeq(iterdir(fs, dir), Zip)

\* ZIP_PATTERN.match(name): ^(\d+)_(\d{8})\.pvol\.zip$
ZIP_PATTERN_match(name) ==
    LET n    == DigitPrefixLen(name)
        body == n + 18
        date == SubSeq(name, n + 2, n + 9)
    IN  IF /\ n >= 1
           /\ Len(name) >= body
           /\ name[n + 1] = "_"
           /\ AllDigits(date)
           /\ SubSeq(name, n + 10, n + 18) = PvolZip
           /\ \/ Len(name) = body
              \/ Len(name) = body + 1 /\ name[body + 1] = "\n"
        THEN [matched |-> TRUE, g1 |-> SubSeq(name, 1, n), g2 |-> date]
        ELSE NoMatch

\* date(year, month, day): ValueError unless it is a day of the calendar.
date(year, month, day) ==
    IF /\ year \in 1..9999
       /\ month \in 1..12
       /\ day \in 1..DaysInMonth(year, month)
    THEN [ok |-> TRUE, date |-> [year |-> year, month |-> month, day |-> day]]
    ELSE [ok |-> FALSE]

\* range(a, b + 1)
range(a, b) == [i \in 1..(IF b < a THEN 0 ELSE b - a + 1) |-> a + i - 1]

RECURSIVE DatesOfNames(_, _, _)
\* The loop over the names of one vol directory: the dates appended.
DatesOfNames(names, start_date, end_date) ==
    IF names = <<>> THEN <<>>
    ELSE LET match == ZIP_PATTERN_match(names[1])
             d == date(int(SubSeq(match.g2, 1, 4)), int(SubSeq(match.g2, 5, 6)),
                       int(SubSeq(match.g2, 7, 8)))
             rest == DatesOfNames(Tail(names), start_date, end_date)
         IN  IF ~match.matched THEN rest
             ELSE IF ~d.ok THEN rest
             ELSE IF /\ start_date.type # "NoneType"
                     /\ ToOrdinal(d.date) < ToOrdinal(start_date)
             THEN rest
             ELSE IF /\ end_date.type # "NoneType"
                     /\ ToOrdinal(d.date) > ToOrdinal(end_date)
             THEN rest
             ELSE <<d.date>> \o rest

RECURSIVE DatesOfYears(_, _, _, _, _, _)
\* The loop over the years: a year without vol directory is passed over.
DatesOfYears(fs, root, rid, years, start_date, end_date) ==
    IF years = <<>> THEN <<>>
    ELSE LET vol_dir == vol_path(root, rid, years[1])
         IN  (IF ~dir_exists(fs, vol_dir) THEN <<>>
              ELSE DatesOfNames(glob(fs, vol_dir), start_date, end_date))
             \o DatesOfYears(fs, root, rid, Tail(years), start_date, end_date)

\* The years available_dates searches; now is datetime.now().year.
YearsToSearch(fs, root, rid, now, year, start_date, end_date) ==
    LET NotAfterEnd(y) == y <= end_date.year
    IN  IF year.type # "NoneType" THEN <<year.n>>
        ELSE IF start_date.type # "NoneType" /\ end_date.type # "NoneType"
        THEN range(start_date.year, end_date.year)
        ELSE IF start_date.type # "NoneType"
        THEN range(start_date.year, now)
        ELSE IF end_date.type # "NoneType"
        THEN SelectSeq(available_years(fs, root, rid), NotAfterEnd)
        ELSE available_years(fs, root, rid)

\* available_dates(radar_id, year, start_date, end_date)
available_dates(fs, root, now, radar_id, year, start_date, end_date) ==
    LET rid == int_arg(radar_id)
        years == YearsToSearch(fs, root, rid, now, year, start_date, end_date)
    IN  SortedDates(DatesOfYears(fs, root, rid, years, start_date, end_date))


-----------------------------------------------------------------------------
(* The sixth group of calls: what the archive holds for a radar            *)

Chars(year) == str(year)

\* A file of the vol directory of a year of radar 2.
VolFile(year, name) == <<Root, <<"2">>, Chars(year), "vol", name>>

\* The files a tree of the scenarios may hold: the two containers of the
\* fixture, a container of the year before, containers named after another
\* radar number and after no date, a file that is no container, a file in
\* the radar's directory, a year without vol directory and a directory that
\* is no year.
AvailFiles ==
    { VolFile(2025, <<"2", "_">> \o Digits20251016 \o PvolZip),
      VolFile(2025, <<"2", "_">> \o Digits20251017 \o PvolZip),
      VolFile(2024, <<"2", "_", "2", "0", "2", "4", "1", "2", "3", "1">>
                      \o PvolZip),
      VolFile(2025, <<"3", "_">> \o Digits20251016 \o PvolZip),
      VolFile(2025, <<"2", "_", "2", "0", "2", "5", "1", "3", "1", "6">>
                      \o PvolZip),
      VolFile(2025, <<"n", "o", "t", "e", "s">> \o PvolZip),
      <<Root, <<"2">>, <<"R", "E", "A", "D", "M", "E">>>>,
      <<Root, <<"2">>, Chars(2023), <<"R", "E", "A", "D", "M", "E">>>>,
      <<Root, <<"2">>, <<"o", "l", "d">>, "vol",
        <<"2", "_", "2", "0", "2", "2", "0", "1", "0", "1">> \o PvolZip>> }

YearArgs == { NoneArg, IntArg(2024), IntArg(2025) }

DayArgs ==
    { NoneArg, DateArg([year |-> 2024, month |-> 12, day |-> 31]),
      DateArg(Day16), DateArg(Day17) }

\* datetime.now().year at the time of the call.
NowYears == { 2025, 2026 }

\* available_years(radar_id)
AvailableYears ==
    \E radar_id \in {IntArg(2), IntArg(3)} :
        /\ res = Idle
        /\ res' = [op |-> "available_years", radar_id |-> radar_id,
                   out |-> [kind |-> "years",
                            list |-> available_years(archive,
                                       get_base_path(_base_path, environ),
                                       int_arg(radar_id))]]
        /\ UNCHANGED <<archive, _base_path, environ, volumes, last_set,
                       fileVars, heapVars, radarVars, workerVars>>

\* available_dates(radar_id, year, start_date, end_date)
AvailableDates ==
    \E year \in YearArgs, start_date \in DayArgs, end_date \in DayArgs,
       now \in NowYears :
        /\ res = Idle
        /\ res' = [op |-> "available_dates", radar_id |-> IntArg(2),
                   year |-> year, start_date |-> start_date,
                   end_date |-> end_date, now |-> now,
                   out |-> [kind |-> "dates",
                            list |-> available_dates(archive,
                                       get_base_path(_base_path, environ),
                                       now, IntArg(2), year, start_date,
                                       end_date)]]
        /\ UNCHANGED <<archive, _base_path, environ, volumes, last_set,
                       fileVars, heapVars, radarVars, workerVars>>

InitAvail == Start /\ archive \in [AvailFiles -> {NoFile, ZipFile(<<>>)}]

NextAvail == AvailableYears \/ AvailableDates \/ Return

SpecAvail == InitAvail /\ [][NextAvail]_vars

-----------------------------------------------------------------------------
(* The seventh group of calls: read, read_h5py and extract_to run by       *)
(* independent workers, one step of a call at a time                       *)

Workers == { "1", "2" }

Resting == [pc |-> "idle"]

\* zipfile.ZipFile(zip_path, "r"): the handle some worker opened, with the
\* directory of the container as read when it was opened.
Handle(owner, fs, file) ==
    [owner |-> owner, zip_path |-> file, names |-> fs[file].names]

\* Mutant: the handle closed on the way out of a block that returns only.
ZipFile__exit__on_return(open, zf, raised) ==
    IF raised THEN open ELSE open \ {zf}

\* ZipFile.__exit__ at the end of the with block, left by a return or by
\* an exception: the handle is closed.
ZipFile__exit__(open, zf, raised) == open \ {zf}

\* tempfile.NamedTemporaryFile(suffix=".h5", delete=False): a fresh name for
\* each call in progress.
TmpPathOf(w) == <<"/tmp", <<"t", "m", "p", w, ".", "h", "5">>>>

\* A worker w calls read(), read_h5py() or extract_to("/out") on a
\* reference it holds, up to and with the opening of the container: extract_to has
\* made the directory by then.
Invoke ==
  \E w \in Workers :
    \E op \in {"read", "read_h5py", "extract_to"}, i \in 1..Len(volumes) :
        LET self == volumes[i]
            zf == Handle(w, archive, self.zip_path)
        IN  /\ workers[w].pc = "idle"
            /\ disk' = IF op = "extract_to" THEN mkdir(disk, <<"/out">>).disk
                       ELSE disk
            /\ IF ~exists(archive, self.zip_path)
               THEN /\ workers' = [workers EXCEPT ![w] =
                          [pc |-> "done", op |-> op, self |-> self,
                           out |-> ZipFileNotFound(self.zip_path)]]
                    /\ UNCHANGED handles
               ELSE /\ workers' = [workers EXCEPT ![w] =
                          [pc |-> "open", op |-> op, self |-> self,
                           zf |-> zf]]
                    /\ handles' = handles \cup {zf}
            /\ UNCHANGED <<archive, _base_path, environ, volumes, res,
                           last_set, opened, heapVars, radarVars>>

\* Inside the with block: zf.open(filename).read(), or zf.extract(filename,
\* directory), on the worker's own handle; KeyError when the container
\* held no such entry.
ReadEntry ==
  \E w \in Workers :
    LET me == workers[w]
        found == \E i \in 1..Len(me.zf.names) : me.zf.names[i] = me.self.filename
    IN  /\ me.pc = "open"
        /\ me.zf \in handles
        /\ workers' = [workers EXCEPT ![w] =
               [pc |-> IF found THEN "read" ELSE "raising", op |-> me.op,
                self |-> me.self, zf |-> me.zf]]
        /\ opened' = IF found
                     THEN opened \cup {<<me.self.zip_path, me.self.filename>>}
                     ELSE opened
        /\ disk' = IF found /\ me.op = "extract_to"
                   THEN write(disk, <<"/out", me.self.filename>>,
                              Bytes(me.self.zip_path, me.self.filename))
                   ELSE disk
        /\ UNCHANGED <<archive, _base_path, environ, volumes, res, last_set,
                       handles, heapVars, radarVars>>

\* The with block is left: the handle is closed, and the call goes on,
\* returns or raises.
ExitWith ==
  \E w \in Workers :
    LET me == workers[w]
    IN  /\ me.pc \in {"read", "raising"}
        /\ handles' = ZipFile__exit__(handles, me.zf, me.pc = "raising")
        /\ workers' = [workers EXCEPT ![w] =
               IF me.pc = "raising"
               THEN [pc |-> "done", op |-> me.op, self |-> me.self,
                     out |-> KeyError(me.self.filename)]
               ELSE IF me.op = "read"
               THEN [pc |-> "closed", op |-> me.op, self |-> me.self]
               ELSE [pc |-> "done", op |-> me.op, self |-> me.self,
                     out |-> [kind |-> "returned"]]]
        /\ UNCHANGED <<archive, _base_path, environ, volumes, res, last_set,
                       fileVars, heapVars, radarVars>>

\* read() writes the payload to its temporary file.
WriteTmp ==
  \E w \in Workers :
    LET me == workers[w]
    IN  /\ me.pc = "closed"
        /\ disk' = write(disk, TmpPathOf(w),
                          Bytes(me.self.zip_path, me.self.filename))
        /\ workers' = [workers EXCEPT ![w] =
               [pc |-> "decoding", op |-> me.op, self |-> me.self]]
        /\ UNCHANGED <<archive, _base_path, environ, volumes, res, last_set,
                       opened, handles, heapVars, radarVars>>

\* pyodim.read_odim(tmp_path) returns or raises, and the finally clause
\* unlinks the temporary file.
Decode ==
  \E w \in Workers :
    LET me == workers[w]
    IN  /\ me.pc = "decoding"
        /\ \E decoded \in BOOLEAN :
              /\ disk' = unlink(disk, TmpPathOf(w), ~decoded)
              /\ workers' = [workers EXCEPT ![w] =
                     [pc |-> "done", op |-> me.op, self |-> me.self,
                      out |-> IF decoded THEN [kind |-> "returned"]
                              ELSE [kind |-> "error", exc |-> "Exception"]]]
        /\ UNCHANGED <<archive, _base_path, environ, volumes, res, last_set,
                       opened, handles, heapVars, radarVars>>

\* The worker takes the outcome of its call; it can make another.
Finish ==
  \E w \in Workers :
    /\ workers[w].pc = "done"
    /\ workers' = [workers EXCEPT ![w] = Resting]
    /\ UNCHANGED <<archive, _base_path, environ, volumes, res, last_set,
                   fileVars, handles, heapVars, radarVars>>

\* The references of the container in hand, every worker at rest.
InitWorkers ==
    /\ archive \in ReadArchives
    /\ _base_path = PathValue(Root)
    /\ environ = None
    /\ volumes = VolumeList(_list_volumes_in_zip(archive, Zip16))
    /\ res = Idle
    /\ last_set = PathValue(Root)
    /\ disk = {}
    /\ opened = {}
    /\ heap = <<>>
    /\ colls = <<>>
    /\ held = {}
    /\ csv_files = << >>
    /\ cache = None
    /\ loads = <<>>
    /\ workers = [w \in Workers |-> Resting]
    /\ handles = {}

NextWorkers ==
    \/ Invoke \/ ReadEntry \/ ExitWith \/ WriteTmp \/ Decode \/ Finish
    \/ ArchiveChanges

SpecWorkers == InitWorkers /\ [][NextWorkers]_vars

-----------------------------------------------------------------------------
(* Reading of names, used by the properties                                *)

\* A digit is read widely, as any decimal digit.
GrammarDigit(c) == c \in AsciiDigits \/ c = "U+FF12"

DigitString(s) == \A i \in 1..Len(s) : GrammarDigit(s[i])

\* The number a string of digits writes.
RECURSIVE Decimal(_, _)
Decimal(s, acc) ==
    IF s = <<>> THEN acc
    ELSE Decimal(Tail(s),
                 10 * acc + (IF s[1] = "U+FF12" THEN 2
                             ELSE CHOOSE k \in 0..9 : str(k) = <<s[1]>>))

-----------------------------------------------------------------------------
(* C1, C2, C3                                                              *)

\* The time between two naive datetimes, <<seconds, microseconds>>, taken
\* from the later one to the earlier one.
Apart(a, b) ==
    LET hi == IF DTLT(a, b) THEN DTKey(b) ELSE DTKey(a)
        lo == IF DTLT(a, b) THEN DTKey(a) ELSE DTKey(b)
        s  == (hi[1] - lo[1]) * 86400 + hi[2] - lo[2]
    IN  IF hi[3] >= lo[3] THEN <<s, hi[3] - lo[3]>>
        ELSE <<s - 1, 1000000 + hi[3] - lo[3]>>

Closer(x, y) == x[1] < y[1] \/ (x[1] = y[1] /\ x[2] < y[2])

\* The indexes of the members of list that no member is closer to target than.
Closest(list, target) ==
    { i \in 1..Len(list) :
        \A j \in 1..Len(list) :
            ~Closer(Apart(list[j].timestamp, target),
                    Apart(list[i].timestamp, target)) }

LowestOf(S) == CHOOSE i \in S : \A j \in S : i <= j

Ascending(list) ==
    \A i \in 1..Len(list) : \A j \in 1..Len(list) :
        i < j => DTLE(list[i].timestamp, list[j].timestamp)

Descending(list) ==
    \A i \in 1..Len(list) : \A j \in 1..Len(list) :
        i < j => DTLE(list[j].timestamp, list[i].timestamp)

\* C1: nearest(target) on a non-empty collection returns a member as close
\* to target as any member, and of the members that close the one at the
\* lowest index.
C1_NearestIsFirstClosest ==
    (res.op = "nearest" /\ res.self # <<>>) =>
        /\ res.out.kind = "vol"
        /\ res.out.vol = res.self[LowestOf(Closest(res.self, res.target))]

\* C1's case: two members equally close, the later one first in the list.
C1_Witness ==
    /\ res.op = "nearest"
    /\ Cardinality(Closest(res.self, res.target)) >= 2
    /\ Len(res.self) > Cardinality(Closest(res.self, res.target))
    /\ \E i \in Closest(res.self, res.target) :
           res.self[i] # res.self[LowestOf(Closest(res.self, res.target))]
    /\ LowestOf(Closest(res.self, res.target)) > 1

\* The earliest timestamp among the closest members.
EarliestClosest(list, target) ==
    LET ts == { list[i].timestamp : i \in Closest(list, target) }
    IN  CHOOSE t \in ts : \A u \in ts : DTLE(t, u)

\* C2 as stated: in whatever order the members are, of two members equally
\* close to target nearest returns the chronologically earliest.
C2_TieGoesToEarliestInAnyOrder ==
    (res.op = "nearest" /\ res.self # <<>>) =>
        /\ res.out.kind = "vol"
        /\ res.out.vol.timestamp = EarliestClosest(res.self, res.target)

\* C2 amended: in a collection in ascending order of timestamp, of two
\* members equally close to target nearest returns the chronologically
\* earliest; in another order it returns the one at the lowest index.
C2_TieGoesToEarliestWhenAscending ==
    (res.op = "nearest" /\ res.self # <<>>) =>
        /\ res.out.kind = "vol"
        /\ res.out.vol \in { res.self[i] : i \in Closest(res.self, res.target) }
        /\ Ascending(res.self) =>
               res.out.vol.timestamp = EarliestClosest(res.self, res.target)
        /\ \A i \in Closest(res.self, res.target) :
               \E j \in 1..i : res.self[j] = res.out.vol

\* C2's case: an ascending collection, the two closest members at different
\* times.
C2_Witness ==
    /\ res.op = "nearest"
    /\ Len(res.self) >= 3
    /\ Ascending(res.self)
    /\ \E i, j \in Closest(res.self, res.target) :
           res.self[i].timestamp # res.self[j].timestamp
    /\ res.out.vol.timestamp = EarliestClosest(res.self, res.target)

\* C3: at(target, tolerance_seconds) on a non-empty collection returns
\* nearest(target) when that member is at most tolerance_seconds from
\* target, and None otherwise; it raises nothing.
C3_AtIsNearestWithinTolerance ==
    (res.op = "at" /\ res.self # <<>>) =>
        LET first == res.self[LowestOf(Closest(res.self, res.target))]
            within == ~Closer(res.tolerance_seconds,
                              Apart(first.timestamp, res.target))
        IN  /\ res.out.kind \in {"vol", "none"}
            /\ res.out.kind = "vol" <=> within
            /\ res.out.kind = "vol" =>
                   /\ res.out.vol = first
                   /\ res.out = nearest(res.self, res.target)
            /\ res.out.kind = "none" => res.out = None

\* C3's case: the nearest member exactly tolerance_seconds away, returned.
C3_Witness ==
    /\ res.op = "at"
    /\ Len(res.self) >= 2
    /\ res.tolerance_seconds # <<0, 0>>
    /\ res.out.kind = "vol"
    /\ Apart(res.out.vol.timestamp, res.target) = res.tolerance_seconds

-----------------------------------------------------------------------------
(* C4 .. C9                                                                *)

IsGetVol == res.op = "get_vol"

IsInstantQuery ==
    IsGetVol /\ res.time_or_date.type = "datetime" /\ res.end_date = NoneArg

IsDayQuery ==
    IsGetVol /\ res.time_or_date.type = "date" /\ res.end_date = NoneArg

IsRangeQuery ==
    IsGetVol /\ res.time_or_date.type = "date" /\ res.end_date # NoneArg

CalendarDays == <<Day15, Day16, Day17>>

\* The radar number an argument stands for.
RadarNumber(radar_id) ==
    IF radar_id.type = "int" THEN radar_id.n ELSE Decimal(radar_id.s, 0)

\* Where the archive keeps the container of a radar and a day:
\* <root>/<radar>/2025/vol/<radar>_202510<dd>.pvol.zip
ExpectedContainer(rid, d) ==
    LET r  == IF rid = 2 THEN <<"2">> ELSE <<"3">>
        dd == CASE d.day = 15 -> <<"1", "5">>
                [] d.day = 16 -> <<"1", "6">>
                [] d.day = 17 -> <<"1", "7">>
    IN  <<Root, r, <<"2", "0", "2", "5">>, "vol",
          r \o <<"_", "2", "0", "2", "5", "1", "0">> \o dd \o PvolZip>>

ContainerExists(rid, d) ==
    /\ ExpectedContainer(rid, d) \in DOMAIN archive
    /\ archive[ExpectedContainer(rid, d)].exists

\* The scan of the container of a radar and a day.
Scan(rid, d) == _list_volumes_in_zip(archive, ExpectedContainer(rid, d))

\* An instant in seconds of UTC since 2025-10-15T00:00:00; the microseconds
\* are apart.
UtcSeconds(t) ==
    (ToOrdinal(DateOf(t)) - ToOrdinal(Day15)) * 86400 + SecondOfDay(t)
      - (IF t.tzinfo = None THEN 0 ELSE t.tzinfo.utcoffset * 60)

IsUtcMidnight(t) == UtcSeconds(t) % 86400 = 0 /\ t.microsecond = 0

UtcDay(t) == CalendarDays[(UtcSeconds(t) \div 86400) + 1]

UtcDateTime(t) ==
    LET s == UtcSeconds(t) % 86400
    IN  MkDateTime(UtcDay(t), s \div 3600, (s % 3600) \div 60, s % 60,
                   t.microsecond)

SameInstant(t, u) ==
    UtcSeconds(t) = UtcSeconds(u) /\ t.microsecond = u.microsecond

IsNotFound(out, rid, d) ==
    out = [kind |-> "error", exc |-> "FileNotFoundError", radar |-> rid,
           date |-> DateOf(d), path |-> ExpectedContainer(rid, d)]

C5_AwareIsItsUtcValue ==
    (IsInstantQuery /\ res.time_or_date.tzinfo # None
       /\ res.time_or_date.tzinfo.utcoffset # 0) =>
        \A t1 \in NaiveArgs :
            SameInstant(t1, res.time_or_date) =>
                res.out = get_vol(archive, Root, res.radar_id, t1, NoneArg,
                                  res.nearest, res.tolerance_seconds)

\* C5's case: an aware datetime whose local date is not its UTC date and
\* which is midnight in its zone but not in UTC, answered by one volume.
C5_Witness ==
    /\ IsInstantQuery /\ res.time_or_date.tzinfo # None
    /\ res.time_or_date.tzinfo.utcoffset # 0
    /\ \E t1 \in NaiveArgs : SameInstant(t1, res.time_or_date)
    /\ UtcDay(res.time_or_date) # DateOf(res.time_or_date)
    /\ res.time_or_date.hour = 0
    /\ ~res.nearest
    /\ res.out.kind = "error" /\ res.out.exc = "ValueError"

\* C6: the day query raises FileNotFoundError, naming the radar, the date
\* and the expected container, exactly when the scan of the day's container
\* gives no reference: the container is missing or none of its entries makes
\* a reference.  Otherwise it returns the references of the scan.
C6_DayQueryFailsIffScanEmpty ==
    IsDayQuery =>
        LET rid == RadarNumber(res.radar_id)
            d   == res.time_or_date
            zp  == ExpectedContainer(rid, d)
            none == \/ ~ContainerExists(rid, d)
                    \/ \A i \in 1..Len(archive[zp].names) :
                           from_filename(zp, archive[zp].names[i]).kind # "vol"
        IN  /\ none <=> Scan(rid, d) = <<>>
            /\ IF none THEN IsNotFound(res.out, rid, d)
               ELSE res.out = [kind |-> "list", list |-> Scan(rid, d)]

\* C6's case: the container is there, holds entries, none a volume.
C6_Witness ==
    /\ IsDayQuery
    /\ ContainerExists(RadarNumber(res.radar_id), res.time_or_date)
    /\ Len(archive[ExpectedContainer(RadarNumber(res.radar_id),
                                     res.time_or_date)].names) = 2
    /\ res.radar_id.type = "str"
    /\ res.out.kind = "error"

\* The days of the calendar from start to end.
DaysFromTo(start, end) ==
    SelectSeq(CalendarDays, LAMBDA d : DateLE(start, d) /\ DateLE(d, end))

RECURSIVE SumOfScans(_, _)
SumOfScans(rid, days) ==
    IF days = <<>> THEN 0
    ELSE Len(Scan(rid, Head(days))) + SumOfScans(rid, Tail(days))

\* The day whose container a reference points at.
DayOfContainer(rid, v) ==
    CHOOSE i \in 1..Len(CalendarDays) :
        ExpectedContainer(rid, CalendarDays[i]) = v.zip_path

\* C7: a range query from start to end, start <= end, returns as many
\* references as the scans of the days from start to end give together, and
\* no reference of a day's container stands after one of a later day's.
C7_RangeIsDayByDay ==
    (IsRangeQuery /\ DateLE(res.time_or_date, res.end_date)) =>
        LET rid == RadarNumber(res.radar_id)
        IN  /\ res.out.kind = "list"
            /\ Len(res.out.list) =
                 SumOfScans(rid, DaysFromTo(res.time_or_date, res.end_date))
            /\ \A i, j \in 1..Len(res.out.list) :
                   i < j => DayOfContainer(rid, res.out.list[i])
                              <= DayOfContainer(rid, res.out.list[j])

\* C7's case: a range of three days, two of them with volumes.
C7_Witness ==
    /\ IsRangeQuery
    /\ DateOf(res.time_or_date) = Day15 /\ DateOf(res.end_date) = Day17
    /\ res.out.kind = "list"
    /\ \E i, j \in 1..Len(res.out.list) :
           res.out.list[i].zip_path # res.out.list[j].zip_path

RECURSIVE ConcatScans(_, _)
ConcatScans(rid, days) ==
    IF days = <<>> THEN <<>>
    ELSE Scan(rid, Head(days)) \o ConcatScans(rid, Tail(days))

\* C8: in a range query a day without container gives nothing and raises
\* nothing: the result is the entries of the days that have a container, in
\* day order, and the empty collection when no day has data; the day query
\* of a day without container raises FileNotFoundError.
C8_RangeSkipsMissingDays ==
    IsRangeQuery =>
        LET rid  == RadarNumber(res.radar_id)
            days == DaysFromTo(res.time_or_date, res.end_date)
            with == SelectSeq(days, LAMBDA d : ContainerExists(rid, d))
        IN  /\ res.out = [kind |-> "list", list |-> ConcatScans(rid, with)]
            /\ (\A i \in 1..Len(days) : Scan(rid, days[i]) = <<>>) =>
                   res.out.list = <<>>
            /\ \A i \in 1..Len(days) :
                   ~ContainerExists(rid, days[i]) =>
                       IsNotFound(get_vol(archive, Root, res.radar_id,
                                          DateArg(days[i]), NoneArg, FALSE,
                                          <<60, 0>>),
                                  rid, days[i])

\* C8's case: the first two days of the range have no container, the third
\* has volumes.
C8_Witness ==
    /\ IsRangeQuery
    /\ DateOf(res.time_or_date) = Day15 /\ DateOf(res.end_date) = Day17
    /\ ~ContainerExists(RadarNumber(res.radar_id), Day16)
    /\ res.out.kind = "list" /\ res.out.list # <<>>

\* C9: a datetime that is not midnight UTC, asked for without nearest on a
\* day that has volumes, gets the day's nearest volume when that volume is
\* at most tolerance_seconds away; otherwise ValueError, which gives that
\* volume's timestamp and its distance in whole seconds.
C9_ExactModeOrToleranceError ==
    (IsInstantQuery /\ ~res.nearest /\ ~IsUtcMidnight(res.time_or_date)
       /\ Scan(RadarNumber(res.radar_id), UtcDay(res.time_or_date)) # <<>>) =>
        LET vols  == Scan(RadarNumber(res.radar_id), UtcDay(res.time_or_date))
            utc   == UtcDateTime(res.time_or_date)
            first == vols[LowestOf(Closest(vols, utc))]
            d     == Apart(first.timestamp, utc)
        IN  IF ~Closer(res.tolerance_seconds, d)
            THEN res.out = [kind |-> "vol", vol |-> first]
            ELSE /\ res.out.kind = "error"
                 /\ res.out.exc = "ValueError"
                 /\ res.out.tolerance = res.tolerance_seconds
                 /\ res.out.dt = utc
                 /\ res.out.nearest_timestamp = first.timestamp
                 /\ \/ res.out.diff = d[1] /\ d[2] <= 500000
                    \/ res.out.diff = d[1] + 1 /\ d[2] >= 500000

\* C9's case: two volumes on the day, the nearest 30.6 s away, more than the
\* tolerance.
C9_Witness ==
    /\ IsInstantQuery /\ ~res.nearest
    /\ res.time_or_date.microsecond = 600000
    /\ Len(Scan(RadarNumber(res.radar_id), UtcDay(res.time_or_date))) = 2
    /\ res.out.kind = "error" /\ res.out.exc = "ValueError"
    /\ res.out.diff = 31

-----------------------------------------------------------------------------
(* C10                                                                     *)

\* The volume grammar {radarId}_{YYYYMMDD}_{HHMMSS}.pvol.h5 read on its own:
\* the radar, date and time parts of a name that has them.
GrammarParts(name) ==
    { p \in { [radar |-> SubSeq(name, 1, n),
               date  |-> SubSeq(name, n + 2, n + 9),
               time  |-> SubSeq(name, n + 11, n + 16)] :
                 n \in {k \in 1..Len(name) : Len(name) = k + 24} } :
        /\ name = Name(p.radar, p.date, p.time, VolumeSuffix)
        /\ DigitString(p.radar)
        /\ DigitString(p.date)
        /\ DigitString(p.time) }

\* The parts name a day of the calendar and a time of the day.
RealDateTime(p) ==
    LET y  == Decimal(SubSeq(p.date, 1, 4), 0)
        mo == Decimal(SubSeq(p.date, 5, 6), 0)
        d  == Decimal(SubSeq(p.date, 7, 8), 0)
    IN  /\ y \in 1..9999 /\ mo \in 1..12 /\ d \in 1..31
        /\ (mo \in {4, 6, 9, 11} => d <= 30)
        /\ (mo = 2 => d <= 29)
        /\ (mo = 2 /\ d = 29 => (y % 4 = 0 /\ y % 100 # 0) \/ y % 400 = 0)
        /\ Decimal(SubSeq(p.time, 1, 2), 0) <= 23
        /\ Decimal(SubSeq(p.time, 3, 4), 0) <= 59
        /\ Decimal(SubSeq(p.time, 5, 6), 0) <= 59

FollowsGrammar(name) == \E p \in GrammarParts(name) : RealDateTime(p)

\* C10: from_filename raises ValueError for every name that fails the volume
\* grammar {radarId}_{YYYYMMDD}_{HHMMSS}.pvol.h5 or whose digits are no real
\* date and time; a reference it returns carries the radar id and the
\* timestamp written in the name, and the filename and zip path as given.
C10_RejectsWhatFailsGrammar ==
    res.op = "from_filename" =>
        /\ ~FollowsGrammar(res.filename) =>
               res.out.kind = "error" /\ res.out.exc = "ValueError"
        /\ res.out.kind = "vol" =>
               /\ res.out.vol.filename = res.filename
               /\ res.out.vol.zip_path = res.zip_path
               /\ \A p \in GrammarParts(res.filename) :
                      /\ res.out.vol.radar_id = Decimal(p.radar, 0)
                      /\ res.out.vol.timestamp =
                           [year |-> Decimal(SubSeq(p.date, 1, 4), 0),
                            month |-> Decimal(SubSeq(p.date, 5, 6), 0),
                            day |-> Decimal(SubSeq(p.date, 7, 8), 0),
                            hour |-> Decimal(SubSeq(p.time, 1, 2), 0),
                            minute |-> Decimal(SubSeq(p.time, 3, 4), 0),
                            second |-> Decimal(SubSeq(p.time, 5, 6), 0),
                            microsecond |-> 0]

-----------------------------------------------------------------------------
(* C11                                                                     *)

FirstUnderscore(name) ==
    CHOOSE i \in 1..Len(name) :
        name[i] = "_" /\ \A j \in 1..(i - 1) : name[j] # "_"

\* The digit strings of a name: what stands before the first underscore,
\* the eight characters after it, and the six after the second underscore.
NameDigits(name) ==
    LET n == FirstUnderscore(name) - 1
    IN  [radar |-> SubSeq(name, 1, n),
         date  |-> SubSeq(name, n + 2, n + 9),
         time  |-> SubSeq(name, n + 11, n + 16)]

RECURSIVE Written(_, _)
\* The decimal writing of n >= 0 in at least w digits.
Written(n, w) ==
    IF n < 10 /\ w <= 1
    THEN <<CHOOSE c \in AsciiDigits : Decimal(<<c>>, 0) = n>>
    ELSE Written(n \div 10, w - 1) \o Written(n % 10, 1)

\* The fields of a reference written back as {radar_id}, {YYYYMMDD}, {HHMMSS}.
WrittenBack(vol) ==
    [radar |-> Written(vol.radar_id, 1),
     date  |-> Written(vol.timestamp.year, 4)
                 \o Written(vol.timestamp.month, 2)
                 \o Written(vol.timestamp.day, 2),
     time  |-> Written(vol.timestamp.hour, 2)
                 \o Written(vol.timestamp.minute, 2)
                 \o Written(vol.timestamp.second, 2)]

Accepted == res.op = "from_filename" /\ res.out.kind = "vol"

\* A string of ASCII digits.
PlainDigits(s) == \A i \in 1..Len(s) : s[i] \in AsciiDigits

\* C11 as stated: for every name from_filename accepts, the radar id, date
\* and time of the reference written back give the digit strings of the
\* name, a radar identifier with leading zeros included.
C11_RoundTripOfEveryName ==
    Accepted => WrittenBack(res.out.vol) = NameDigits(res.filename)

\* C11 amended: the digit strings come back for every accepted name written
\* in ASCII digits whose radar identifier has no leading zero.
C11_RoundTripOfPlainNames ==
    (/\ Accepted
     /\ PlainDigits(NameDigits(res.filename).radar)
     /\ PlainDigits(NameDigits(res.filename).date)
     /\ PlainDigits(NameDigits(res.filename).time)
     /\ \/ Len(NameDigits(res.filename).radar) = 1
        \/ NameDigits(res.filename).radar[1] # "0") =>
        WrittenBack(res.out.vol) = NameDigits(res.filename)

\* C11's case: an accepted name of a two-digit radar with a time whose
\* seconds are not zero.
C11_Witness ==
    /\ Accepted
    /\ NameDigits(res.filename).radar = <<"6", "4">>
    /\ NameDigits(res.filename).time = <<"2", "3", "5", "9", "5", "9">>
    /\ WrittenBack(res.out.vol) = NameDigits(res.filename)

-----------------------------------------------------------------------------
(* C12, C13                                                                *)

IsScan == res.op = "_list_volumes_in_zip"

\* The names the scanned container enumerates.
Enumerated ==
    IF res.zip_file \in DOMAIN archive /\ archive[res.zip_file].exists
    THEN archive[res.zip_file].names
    ELSE <<>>

\* How many elements of a sequence satisfy Test.
Count(seq, Test(_)) == Len(SelectSeq(seq, Test))

\* C12: the scan gives one reference for each enumerated entry whose name
\* follows the volume grammar, as often as the name is enumerated, each on
\* the scanned container under the entry's name; the other entries give
\* none and raise nothing; no payload is opened.
C12_OneReferencePerVolumeEntry ==
    IsScan =>
        /\ \A name \in ScanEntryNames :
               Count(res.out, LAMBDA v : v.filename = name) =
                   IF FollowsGrammar(name)
                   THEN Count(Enumerated, LAMBDA n : n = name)
                   ELSE 0
        /\ \A i \in 1..Len(res.out) :
               /\ res.out[i].zip_path = res.zip_file
               /\ res.out[i].filename \in ScanEntryNames
        /\ opened = {}

\* C13: the scan's result is in ascending order of timestamp, and the
\* references of one timestamp stand in the order the container enumerates
\* their entries.
C13_ScanSortedAndStable ==
    IsScan =>
        /\ Ascending(res.out)
        /\ \A k \in 1..Len(res.out) :
               LET t == res.out[k].timestamp
                   same == SelectSeq(res.out, LAMBDA v : v.timestamp = t)
                   from == SelectSeq(Enumerated, LAMBDA n :
                               LET r == from_filename(res.zip_file, n)
                               IN  r.kind = "vol" /\ r.vol.timestamp = t)
               IN  [i \in 1..Len(same) |-> same[i].filename] = from

\* C13's case: two entries of one timestamp under different names, after an
\* entry of a later timestamp.
C13_Witness ==
    /\ IsScan /\ Len(res.out) = 3
    /\ res.out[1].timestamp = res.out[2].timestamp
    /\ res.out[1].filename # res.out[2].filename
    /\ Enumerated[1] = res.out[3].filename

-----------------------------------------------------------------------------
(* C14, C15                                                                *)

\* C14: read() works in memory: no step of a read() makes a file on disk;
\* a step that makes one is a step of extract_to.
C14_OnlyExtractToWritesToDisk ==
    [][disk' \ disk # {} => res'.op = "extract_to"]_vars

IsReadCall ==
    /\ res.op \in {"read", "read_h5py", "extract_to"}
    /\ "out" \in DOMAIN res

ContainerMissing(self) ==
    ~(self.zip_path \in DOMAIN archive /\ archive[self.zip_path].exists)

EntryMissing(self) ==
    /\ ~ContainerMissing(self)
    /\ \A i \in 1..Len(archive[self.zip_path].names) :
           archive[self.zip_path].names[i] # self.filename

\* C15: read (where pyodim is installed), read_h5py and extract_to on a
\* reference whose container is missing or whose entry is no longer in the
\* container fail, and with the same kind of error for the one cause as for
\* the other.
C15_OneErrorKindForBothCauses ==
    (/\ IsReadCall
     /\ res.op = "read" => res.pyodim
     /\ ContainerMissing(res.self) \/ EntryMissing(res.self)) =>
        /\ res.out.kind = "error"
        /\ res.out.exc = zf_open((res.self.zip_path :> NoFile), res.self).exc

-----------------------------------------------------------------------------
(* C16, C17                                                                *)

\* C16: nearest on a collection of no elements raises ValueError and gives
\* no reference.
C16_NearestOfEmptyRaises ==
    (res.op = "nearest" /\ res.self = <<>>) =>
        /\ res.out.kind = "error"
        /\ res.out.exc = "ValueError"

\* C16's case: nearest called on the collection VolumeList() gives.
C16_Witness ==
    /\ res.op = "nearest" /\ res.self = <<>>
    /\ res.target = MkDateTime(Day16, 12, 0, 0, 0)
    /\ res.out.kind = "error"

\* C17 as stated: at on a collection of no elements raises the error of the
\* empty collection, as nearest does.
C17_AtOfEmptyRaises ==
    (res.op = "at" /\ res.self = <<>>) =>
        res.out = nearest(res.self, res.target)

\* C17 amended: at on a collection of no elements returns None whatever the
\* target and the tolerance, and raises nothing.
C17_AtOfEmptyIsNone ==
    (res.op = "at" /\ res.self = <<>>) => res.out = None

\* C17's case: at called on the empty collection with the widest tolerance.
C17_Witness ==
    /\ res.op = "at" /\ res.self = <<>>
    /\ res.tolerance_seconds = <<21570, 0>>
    /\ res.out.kind = "none"

-----------------------------------------------------------------------------
(* C18                                                                     *)

\* A naive datetime as the seconds since 2025-10-15T00:00:00 and the
\* microseconds.
Instant(t) ==
    <<(ToOrdinal(DateOf(t)) - ToOrdinal(Day15)) * 86400 + t.hour * 3600
        + t.minute * 60 + t.second,
      t.microsecond>>

NotAfter(a, b) ==
    \/ Instant(a)[1] < Instant(b)[1]
    \/ Instant(a)[1] = Instant(b)[1] /\ Instant(a)[2] <= Instant(b)[2]

\* The member v is one that filter(start, end, predicate) is to keep.
Kept(v, start, end, predicate) ==
    /\ start # None => NotAfter(start, v.timestamp)
    /\ end # None => NotAfter(v.timestamp, end)
    /\ predicate # None => v \in predicate.true_of

\* C18: filter(start, end, predicate) returns the members at or after
\* start, at or before end and accepted by predicate, each bound and the
\* predicate counting only when given, as often and in the order they stand
\* in the source; with no argument it returns every member.
C18_FilterKeepsWhatIsInBounds ==
    res.op = "filter" =>
        /\ res.out = SelectSeq(res.self,
                         LAMBDA v : Kept(v, res.start, res.end, res.predicate))
        /\ (res.start = None /\ res.end = None /\ res.predicate = None) =>
               res.out = res.self

\* C18's case: both bounds on the timestamp of a member that stands twice
\* in the source among others; both copies are kept, the others not.
C18_Witness ==
    /\ res.op = "filter"
    /\ res.start = MkDateTime(Day16, 12, 0, 0, 0)
    /\ res.end = res.start
    /\ res.predicate # None
    /\ Len(res.self) = 3
    /\ Len(res.out) = 2
    /\ res.out[1] = res.out[2]
    /\ res.self[2] # res.out[1]

-----------------------------------------------------------------------------
(* C19                                                                     *)

\* The references of the collection c, in order.
Members(c) == heap[colls[c]]

\* Every collection built so far is still the collection it was.
CollectionsStay ==
    /\ Len(colls') >= Len(colls)
    /\ \A c \in 1..Len(colls) :
           /\ colls'[c] = colls[c]
           /\ heap'[colls'[c]] = heap[colls[c]]

SameMembers(s, t) ==
    /\ Len(s) = Len(t)
    /\ \A i \in 1..Len(s) :
           Count(s, LAMBDA v : v = s[i]) = Count(t, LAMBDA v : v = s[i])

\* What sort and + have returned is a collection of its own: the members of
\* the source in timestamp order, the members of the one followed by those
\* of the other.
ReturnedIsNew ==
    /\ res.op \in {"VolumeList.sort", "VolumeList.__add__"} =>
           /\ res.out = Len(colls)
           /\ \A c \in 1..(Len(colls) - 1) : colls[c] # colls[res.out]
    /\ res.op = "VolumeList.sort" =>
           /\ SameMembers(Members(res.out), Members(res.self))
           /\ IF res.reverse THEN Descending(Members(res.out))
              ELSE Ascending(Members(res.out))
    /\ res.op = "VolumeList.__add__" =>
           Members(res.out) = Members(res.self) \o Members(res.other)

\* C19: no call of filter, sort, +, slicing, nearest, at, iteration or
\* to_list, and no change the caller makes to a list it handed to the
\* constructor or got from to_list, changes a collection built before; sort
\* and + return new collections, sorted by timestamp and appended in order.
C19_CollectionsAreNeverMutated ==
    [][CollectionsStay /\ ReturnedIsNew']_vars

\* C19's case: the caller has emptied a list it handed to the constructor
\* of a collection or got from its to_list(), and the collection has its
\* members.
C19_Witness ==
    /\ res.op = "list.clear"
    /\ res.coll # 0
    /\ heap[res.list] = <<>>
    /\ Len(Members(res.coll)) = 2
    /\ Len(colls) >= 2

-----------------------------------------------------------------------------
(* C20                                                                     *)

\* C20: get_base_path returns the path of the latest set_base_path call when
\* that call gave a path, whatever AURA_BASE_PATH is; when the latest call
\* gave None, or there was no call, it returns the path AURA_BASE_PATH names
\* if that is set and not empty, and the default path otherwise.
C20_BasePathIsLatestSetElseEnvElseDefault ==
    res.op = "get_base_path" =>
        res.out =
            IF last_set # NoCall /\ last_set # None THEN Path(last_set)
            ELSE IF environ # None /\ environ # EnvValue("")
                 THEN PurePath(environ.path)
                 ELSE "/g/data/rq0/level_1/odim_pvol"

\* C20's case: the latest set_base_path call gave None while AURA_BASE_PATH
\* names a path; get_base_path gives the path of the environment.
C20_Witness ==
    /\ res.op = "get_base_path"
    /\ last_set = None
    /\ environ = EnvValue("/env/aura/")
    /\ res.out = "/env/aura"

-----------------------------------------------------------------------------
(* C21: the radar metadata is loaded once and never again                  *)

IsRadarCall == res.op \in {"get_radar", "list_radars", "get_radar_ids"}

\* What the call in res gives on the records radars.
AnswerOn(radars) ==
    CASE res.op = "get_radar" ->
           get_radar(radars, res.radar_id, res.at_date)
      [] res.op = "list_radars" ->
           list_radars(radars, res.current_only, res.band, res.state,
                       res.dual_pol_only)
      [] res.op = "get_radar_ids" -> get_radar_ids(radars)

\* The site list file under the archive root of the moment.
SiteListNow ==
    csv_files[radar_site_list_path(get_base_path(_base_path, environ))]

\* C21: once a load of the site list has succeeded, no call of get_radar,
\* list_radars or get_radar_ids reads a site list file again, and every
\* such call answers from the records of that first load, whatever the
\* file holds by then and wherever the archive root points by then.
C21_FirstLoadServesEveryLaterCall ==
    /\ [](IsRadarCall /\ loads # <<>> => res.out = AnswerOn(loads[1]))
    /\ [][loads # <<>> => loads' = loads]_vars

\* A call answered after one load, while the file under the root of the
\* moment is missing or holds other records than that load read.
C21_Witness ==
    /\ IsRadarCall
    /\ Len(loads) = 1
    /\ res.out.kind # "error"
    /\ (SiteListNow = None \/ ReadSiteList(SiteListNow) # loads[1])

-----------------------------------------------------------------------------
(* C22: the dates available_dates returns                                  *)

IsAvailableDates == res.op = "available_dates"

\* The dates named by the containers of the vol directory of a year.
DatesNamedIn(year) ==
    LET names == glob(archive, vol_path(get_base_path(_base_path, environ),
                                        int_arg(res.radar_id), year))
        found == DatesOfNames(names, NoneArg, NoneArg)
    IN  { found[i] : i \in 1..Len(found) }

\* C22: available_dates returns dates in strictly ascending order, no date
\* twice, each within the bounds supplied; with a year given every date
\* comes from a container of that year's vol directory; a name that is no
\* container name or names no date raises nothing.
C22_DatesAreAnOrderedSet ==
    IsAvailableDates =>
        LET dates == res.out.list
        IN  /\ res.out.kind = "dates"
            /\ \A i \in 1..Len(dates), j \in 1..Len(dates) :
                  i < j => ToOrdinal(dates[i]) < ToOrdinal(dates[j])
            /\ \A i \in 1..Len(dates) :
                  /\ res.start_date.type # "NoneType" =>
                        ToOrdinal(res.start_date) <= ToOrdinal(dates[i])
                  /\ res.end_date.type # "NoneType" =>
                        ToOrdinal(dates[i]) <= ToOrdinal(res.end_date)
                  /\ res.year.type # "NoneType" =>
                        dates[i] \in DatesNamedIn(res.year.n)

-----------------------------------------------------------------------------
(* C23: a container handle for each call, closed when the call ends        *)

\* The worker is inside the with block of its call.
InWith(w) == workers[w].pc \in {"open", "read", "raising"}

\* C23: in every interleaving of read, read_h5py and extract_to calls the
\* open handles are exactly those of the calls inside their with block,
\* one for each, opened by the call that uses it; a call that has left the
\* block, by a return or by an exception, holds none, so no handle is
\* open when no call is in progress.
C23_OwnHandleClosedAtTheEnd ==
    /\ \A h \in handles : InWith(h.owner) /\ workers[h.owner].zf = h
    /\ \A w \in Workers :
          InWith(w) => workers[w].zf \in handles /\ workers[w].zf.owner = w
    /\ (\A w \in Workers : workers[w].pc = "idle") => handles = {}

\* One call has ended with KeyError while another call, on the same
\* container, is inside its with block.
C23_Witness ==
    \E w \in Workers, v \in Workers :
        /\ workers[w].pc = "done"
        /\ workers[w].out.kind = "error"
        /\ workers[w].out.exc = "KeyError"
        /\ workers[v].pc = "read"
        /\ workers[v].self.zip_path = workers[w].self.zip_path
        /\ handles = {workers[v].zf}

-----------------------------------------------------------------------------
(* C24, C28, C29: what extract_to and read leave on disk                   *)

\* The step is a whole call of extract_to.
ExtractToStep == res = Idle /\ res'.op = "extract_to"

\* C24: a call of extract_to(directory) that returns has made the directory
\* and its missing parents, has left in it a file named after the entry
\* that holds the entry's bytes, and returns the path of that file; all
\* that was on disk before is as it was, but for a file of that path.
C24_ExtractToWritesTheTargetOnly ==
    [][ExtractToStep /\ res'.out.kind = "path" =>
          LET call == res'
              target == call.directory \o <<call.self.filename>>
          IN  /\ call.out.path = target
              /\ \A k \in 1..Len(call.directory) :
                    OnDisk(SubSeq(call.directory, 1, k), Dir) \in disk'
              /\ OnDisk(target, Bytes(call.self.zip_path, call.self.filename))
                    \in disk'
              /\ \A e \in disk' : e.path = target => e.data =
                    Bytes(call.self.zip_path, call.self.filename)
              /\ \A e \in disk : e.path # target => e \in disk'
              /\ \A e \in disk' :
                    e \notin disk =>
                       \/ e.path = target
                       \/ \E k \in 1..Len(call.directory) :
                             e = OnDisk(SubSeq(call.directory, 1, k), Dir)]_vars

\* extract_to has returned the path of a volume in /out, where the file of
\* another name that was there before the call still is; no file of the
\* volume's name holds the bytes that were on disk at first.
C24_Witness ==
    /\ res.op = "extract_to"
    /\ res.out.kind = "path"
    /\ res.directory = <<"/out">>
    /\ OnDisk(<<"/out", <<"n", "o", "t", "e", "s">>>>, StaleBytes) \in disk
    /\ res.self.filename =
          Name(<<"2">>, Digits20251016, Digits120000, VolumeSuffix)
    /\ OnDisk(res.out.path, StaleBytes) \notin disk

\* C28: a call of extract_to that raises has made and changed nothing on
\* disk.
C28_FailedExtractToLeavesDiskAlone ==
    [][ExtractToStep /\ res'.out.kind = "error" => disk' = disk]_vars

\* C29: a call of read() that has ended, by a return or by an exception,
\* has left the disk as it found it: what its first step put on disk is
\* the temporary file only, and its last step removes that file.
C29_ReadLeavesNoFile ==
    /\ [][res = Idle /\ res'.op = "read" =>
            IF "out" \in DOMAIN res' THEN disk' = disk
            ELSE /\ disk \subseteq disk'
                 /\ \A e \in disk' \ disk : e.path = res'.tmp_path
                 /\ \A e \in disk : e.path # res'.tmp_path]_vars
    /\ [][res.op = "read" /\ "tmp_path" \in DOMAIN res =>
            /\ "out" \in DOMAIN res'
            /\ disk' = { e \in disk : e.path # res.tmp_path }]_vars
    /\ [](res.op = "read" /\ "out" \in DOMAIN res =>
            \A e \in disk : e.path # TmpPath)

\* read() has ended with an exception of the decoder; files extracted
\* before are on disk, the temporary file is not.
C29_Witness ==
    /\ res.op = "read"
    /\ "out" \in DOMAIN res
    /\ res.out.kind = "error"
    /\ res.out.exc = "Exception"
    /\ disk # {}

-----------------------------------------------------------------------------
(* C25, C26, C27: the queries against the whole archive                    *)

\* C25: the volume a nearest query returns is the closest of the archive:
\* no volume in a container of the radar, that of the day before and that
\* of the day after with it, is strictly closer to the UTC value of t.
C25_NearestIsClosestInArchive ==
    (IsInstantQuery /\ res.nearest /\ res.out.kind = "vol") =>
        LET utc == UtcDateTime(res.time_or_date)
            all == ConcatScans(RadarNumber(res.radar_id), CalendarDays)
        IN  \A i \in 1..Len(all) :
                ~Closer(Apart(all[i].timestamp, utc),
                        Apart(res.out.vol.timestamp, utc))

\* C26: each reference of a day query of radar r and day d, and each
\* reference a range query takes from the container of day d, has the
\* radar number r and a timestamp on day d, and the result of a range query
\* is non-decreasing in timestamp.
C26_ReferencesBelongToTheQuery ==
    /\ (IsDayQuery /\ res.out.kind = "list") =>
          \A i \in 1..Len(res.out.list) :
              /\ res.out.list[i].radar_id = RadarNumber(res.radar_id)
              /\ DateOf(res.out.list[i].timestamp) = DateOf(res.time_or_date)
    /\ (IsRangeQuery /\ res.out.kind = "list") =>
          /\ \A i \in 1..Len(res.out.list) :
                /\ res.out.list[i].radar_id = RadarNumber(res.radar_id)
                /\ DateOf(res.out.list[i].timestamp) =
                     CalendarDays[DayOfContainer(RadarNumber(res.radar_id),
                                                 res.out.list[i])]
          /\ Ascending(res.out.list)

IsHasData == res.op = "has_data"

\* C27: has_data(r, d) is true exactly when the day query get_vol(r, d)
\* returns a collection, and false exactly when it raises the not-found
\* error.
C27_HasDataAgreesWithDayQuery ==
    IsHasData =>
        LET vols == get_vol(archive, get_base_path(_base_path, environ),
                            res.radar_id, res.day, NoneArg, FALSE, <<60, 0>>)
        IN  /\ res.out.value <=> (vols.kind = "list" /\ vols.list # <<>>)
            /\ ~res.out.value <=>
                 IsNotFound(vols, RadarNumber(res.radar_id), res.day)

-----------------------------------------------------------------------------
(* C30: read_vol reads one volume                                          *)

IsReadVol == res.op = "read_vol"

\* C30: read_vol resolves its datetime to one volume and calls read() on
\* it, or raises the not-found or the tolerance error of get_vol; where
\* pyodim is installed it raises nothing else before the decoding starts,
\* and it never calls read on a collection.
C30_ReadVolReadsOneVolume ==
    (IsReadVol /\ res.pyodim) =>
        \/ /\ res.vol.kind = "vol"
           /\ "tmp_path" \in DOMAIN res \/ res.out.kind # "error"
                \/ res.out.exc \in {"Exception", "FileNotFoundError",
                                    "KeyError"}
        \/ /\ res.vol.kind = "error"
           /\ res.out = res.vol
           /\ res.out.exc \in {"FileNotFoundError", "ValueError"}

=============================================================================
